---- MODULE Spec2Model ----
(***************************************************************************)
(* A model of apk-editor: the ZIP reader (apk_zip/zip.rs), the ZIP editor  *)
(* (apk_zip/editor.rs), the ApkFile facade (apk_zip/wrap.rs), the AXML     *)
(* codec (manifest/axml.rs) and the manifest facade                        *)
(* (manifest/manifest_editor.rs).                                          *)
(*                                                                         *)
(* Buffers are sequences of bytes (0..255); offset k of the code is        *)
(* element k+1 of the sequence.  TLC's integers are 32 bits wide and       *)
(* signed, so a u32 value v is represented by v when v < 2^31 and by       *)
(* v - 2^32 otherwise (the i32 with the same bits): equality is kept, and  *)
(* a negative representative used as an offset or a size is larger than    *)
(* every buffer of the model.  A Rust panic (index out of range, unwrap of *)
(* None, arithmetic overflow) is the result "Panic".                       *)
(***************************************************************************)
EXTENDS Integers, Sequences, FiniteSets, TLC

VARIABLES
    data,                 \* ApkFile.data: the source archive's bytes
    zip,                  \* ApkFile.zip: the result of ZipFile::from(data)
    editable_entries,     \* ZipEditor.editable_entries
    append_entries,       \* ZipEditor.append_entries
    dex_count,            \* ApkFile.dex_count
    dex_names,            \* history: the names add_dex has chosen, in call order
    last,                 \* the most recent ApkFile call: op, name, align, return value, bytes written
    mdata,                \* the manifest's source bytes
    xml,                  \* AndroidManifest.xml: the result of AndroidXml::from_data(mdata)
    string_chunk_builder, \* AndroidManifest.string_chunk_builder
    application_node_index, \* AndroidManifest.application_node_index
    mlast,                \* the most recent AndroidManifest / StringChunkBuilder call
    mprev,                \* history: the call before the most recent one
    put_calls             \* history: the StringChunkBuilder::put calls, in call order

zipVars == <<data, zip, editable_entries, append_entries, dex_count, dex_names, last>>
axmlVars == <<mdata, xml, string_chunk_builder, application_node_index, mlast, mprev,
              put_calls>>
vars == <<data, zip, editable_entries, append_entries, dex_count, dex_names, last,
          mdata, xml, string_chunk_builder, application_node_index, mlast, mprev,
          put_calls>>

(***************************************************************************)
(* Program constants.                                                      *)
(***************************************************************************)
LOCAL_FILE_HEADER == 67324752
CENTRAL_DIRECTORY_END == 101010256
CENTRAL_DIRECTORY == 33639248
MaxSeekIndex == 65535
SaveAlign == 4
U16 == 65536

None == [some |-> FALSE]
Some(v) == [some |-> TRUE, v |-> v]
Panic == [kind |-> "Panic"]

(***************************************************************************)
(* utils.rs: little-endian reads and writes.  The callers guard the range, *)
(* an unguarded read out of range being a panic of the code.               *)
(***************************************************************************)
InRange(d, off, n) == off >= 0 /\ n >= 0 /\ off + n <= Len(d)

get_leu16_value(d, off) == d[off + 1] + 256 * d[off + 2]

get_leu32_value(d, off) ==
    LET hi == d[off + 4]
        low == d[off + 1] + 256 * d[off + 2] + 65536 * d[off + 3]
    IN  IF hi < 128 THEN low + 16777216 * hi
        ELSE low + 16777216 * (hi - 128) - 2147483647 - 1

get_le32_value(d, off) == get_leu32_value(d, off)

write_u16(v) == <<v % 256, (v \div 256) % 256>>

push_leu32(v) ==
    LET w == IF v >= 0 THEN v ELSE v + 2147483647 + 1
        top == IF v >= 0 THEN 0 ELSE 128
    IN  <<w % 256, (w \div 256) % 256, (w \div 65536) % 256, (w \div 16777216) + top>>

push_le32(v) == push_leu32(v)

Slice(d, from, to) == SubSeq(d, from + 1, to)

Zeros(n) == [i \in 1..n |-> 0]

(***************************************************************************)
(* String::from_utf8: whether the bytes from index i on are well-formed    *)
(* UTF-8.                                                                  *)
(***************************************************************************)
Cont(c) == c >= 128 /\ c <= 191

RECURSIVE Utf8From(_, _)
Utf8From(b, i) ==
    IF i > Len(b) THEN TRUE
    ELSE LET c == b[i] IN
        IF c < 128 THEN Utf8From(b, i + 1)
        ELSE IF c >= 194 /\ c <= 223
        THEN i + 1 <= Len(b) /\ Cont(b[i + 1]) /\ Utf8From(b, i + 2)
        ELSE IF c >= 224 /\ c <= 239
        THEN /\ i + 2 <= Len(b)
             /\ b[i + 1] >= (IF c = 224 THEN 160 ELSE 128)
             /\ b[i + 1] <= (IF c = 237 THEN 159 ELSE 191)
             /\ Cont(b[i + 2])
             /\ Utf8From(b, i + 3)
        ELSE IF c >= 240 /\ c <= 244
        THEN /\ i + 3 <= Len(b)
             /\ b[i + 1] >= (IF c = 240 THEN 144 ELSE 128)
             /\ b[i + 1] <= (IF c = 244 THEN 143 ELSE 191)
             /\ Cont(b[i + 2])
             /\ Cont(b[i + 3])
             /\ Utf8From(b, i + 4)
        ELSE FALSE

from_utf8_ok(b) == Utf8From(b, 1)

(***************************************************************************)
(* crc32fast::Hasher: CRC-32 (IEEE 802.3, reflected polynomial EDB88320),  *)
(* computed on the two 16-bit halves <<high, low>> of the register.  The   *)
(* test r[1] < 0, never true, makes TLC evaluate the register at each      *)
(* step instead of nesting the unevaluated steps.                          *)
(***************************************************************************)
RECURSIVE BitXor(_, _)
BitXor(a, b) ==
    IF a = 0 THEN b
    ELSE IF b = 0 THEN a
    ELSE ((a + b) % 2) + 2 * BitXor(a \div 2, b \div 2)

CrcPolyHigh == 60856
CrcPolyLow == 33568

CrcShift(r) ==
    LET h == r[1] \div 2
        l == (r[2] \div 2) + 32768 * (r[1] % 2)
    IN  IF r[2] % 2 = 1 THEN <<BitXor(h, CrcPolyHigh), BitXor(l, CrcPolyLow)>>
        ELSE <<h, l>>

RECURSIVE CrcRounds(_, _)
CrcRounds(r, k) ==
    IF k = 0 \/ r[1] < 0 THEN r ELSE CrcRounds(CrcShift(r), k - 1)

RECURSIVE CrcUpdate(_, _, _)
CrcUpdate(r, b, i) ==
    IF i > Len(b) \/ r[1] < 0 THEN r
    ELSE CrcUpdate(CrcRounds(<<r[1], BitXor(r[2], b[i])>>, 8), b, i + 1)

crc32(b) ==
    LET r == CrcUpdate(<<65535, 65535>>, b, 1)
        h == 65535 - r[1]
        l == 65535 - r[2]
    IN  IF h < 32768 THEN h * 65536 + l ELSE (h - 32768) * 65536 + l - 2147483647 - 1

(***************************************************************************)
(* flate2: DeflateEncoder / DeflateDecoder.  The encoder is modelled as    *)
(* the one-block "stored" DEFLATE stream (RFC 1951, 3.2.4): the final-     *)
(* block byte, LEN, NLEN and the bytes.  The decoder reads that stream; on *)
(* a malformed stream the code drops the error and keeps the bytes decoded *)
(* so far, which is none.                                                  *)
(***************************************************************************)
DeflateEncoder(b) ==
    <<1>> \o write_u16(Len(b)) \o write_u16(65535 - Len(b)) \o b

DeflateDecoder(raw) ==
    IF /\ Len(raw) >= 5
       /\ raw[1] = 1
       /\ get_leu16_value(raw, 1) + get_leu16_value(raw, 3) = 65535
       /\ Len(raw) >= 5 + get_leu16_value(raw, 1)
    THEN SubSeq(raw, 6, 5 + get_leu16_value(raw, 1))
    ELSE <<>>

(***************************************************************************)
(* apk_zip/mod.rs: CompressMethod.                                         *)
(***************************************************************************)
convert_from_u16(value) ==
    IF value = 0 THEN Some("Stored")
    ELSE IF value = 8 THEN Some("Deflated")
    ELSE None

value_of(method) == IF method = "Stored" THEN 0 ELSE 8

(***************************************************************************)
(* apk_zip/zip.rs: ZipFile::from.                                          *)
(*                                                                         *)
(* The backward scan for the end-of-central-directory record.  The usize   *)
(* subtraction data.len() - 22 - seek_index below zero panics (a debug     *)
(* build) or wraps to an offset past the buffer, whose read panics (a      *)
(* release build): a panic either way.                                     *)
(***************************************************************************)
ZipFormatError(offset, reason) == [kind |-> "Err", offset |-> offset, reason |-> reason]

RECURSIVE ScanEnd(_, _)
ScanEnd(d, seek_index) ==
    IF Len(d) - 22 - seek_index < 0 THEN Panic
    ELSE IF get_leu32_value(d, Len(d) - 22 - seek_index) = CENTRAL_DIRECTORY_END
    THEN [kind |-> "Found", offset |-> Len(d) - 22 - seek_index]
    ELSE IF Len(d) - 22 - (seek_index + 1) < 0 THEN Panic
    ELSE IF Len(d) - 22 - (seek_index + 1) < 4 \/ seek_index + 1 > MaxSeekIndex
    THEN ZipFormatError(Len(d) - 22 - (seek_index + 1), "Central directory end not found")
    ELSE ScanEnd(d, seek_index + 1)

(* One central-directory record at current_offset, in the order of the     *)
(* code: the magic, the three lengths, the name, the fields.               *)
ReadEntry(d, current_offset) ==
    IF ~InRange(d, current_offset, 4) THEN Panic
    ELSE IF get_leu32_value(d, current_offset) # CENTRAL_DIRECTORY
    THEN ZipFormatError(current_offset, "magic of central directory error")
    ELSE IF ~InRange(d, current_offset + 28, 6) THEN Panic
    ELSE LET file_name_len == get_leu16_value(d, current_offset + 28)
             ext_len == get_leu16_value(d, current_offset + 30)
             comment_len == get_leu16_value(d, current_offset + 32)
         IN  IF ~InRange(d, current_offset + 46, file_name_len) THEN Panic
             ELSE LET file_name_data == Slice(d, current_offset + 46,
                                              current_offset + 46 + file_name_len)
                      method == convert_from_u16(get_leu16_value(d, current_offset + 10))
                  IN  IF ~from_utf8_ok(file_name_data)
                      THEN ZipFormatError(current_offset, "convert string fail")
                      ELSE IF ~method.some THEN Panic
                      ELSE [kind |-> "Entry",
                            entry |-> [
                              origin_size |-> get_leu32_value(d, current_offset + 24),
                              compressed_size |-> get_leu32_value(d, current_offset + 20),
                              file_name |-> file_name_data,
                              crc_32 |-> get_leu32_value(d, current_offset + 16),
                              compress_method |-> method.v,
                              local_file_header_offset |-> get_leu32_value(d, current_offset + 42),
                              central_directory_header_offset |-> current_offset,
                              entry_size |-> 46 + file_name_len + ext_len + comment_len,
                              ext_len |-> ext_len]]

RECURSIVE ParseEntries(_, _, _, _, _)
ParseEntries(d, current_offset, remaining, entries, file_name_map) ==
    IF remaining = 0
    THEN [kind |-> "Ok", entries |-> entries, file_name_map |-> file_name_map]
    ELSE LET r == ReadEntry(d, current_offset) IN
        IF r.kind # "Entry" THEN r
        ELSE ParseEntries(d, current_offset + r.entry.entry_size, remaining - 1,
                          Append(entries, r.entry),
                          (r.entry.file_name :> Len(entries)) @@ file_name_map)

ZipFile_from(d) ==
    LET end == ScanEnd(d, 0) IN
    IF end.kind # "Found" THEN end
    ELSE LET central_directory_offset == get_leu32_value(d, end.offset + 16)
             dir_count == get_leu16_value(d, end.offset + 10)
             r == ParseEntries(d, central_directory_offset, dir_count, <<>>, <<>>)
         IN  IF r.kind # "Ok" THEN r
             ELSE [kind |-> "Ok",
                   data |-> d,
                   central_directory_offset |-> central_directory_offset,
                   entries |-> r.entries,
                   file_name_map |-> r.file_name_map]

(* Mutant: a name that is not indexed resolves to the first entry. *)
get_file_index_default_first(z, name) ==
    IF name \in DOMAIN z.file_name_map THEN Some(z.file_name_map[name]) ELSE Some(0)

(* Mutant: a name resolves to the first record that carries it. *)
get_file_index_first_wins(z, name) ==
    IF name \in DOMAIN z.file_name_map
    THEN Some((CHOOSE i \in 1..Len(z.entries) :
                 /\ z.entries[i].file_name = name
                 /\ \A j \in 1..(i - 1) : z.entries[j].file_name # name) - 1)
    ELSE None

(* HashMap::get on the name index; entry indices count from 0 as in the code. *)
get_file_index(z, name) ==
    IF name \in DOMAIN z.file_name_map THEN Some(z.file_name_map[name]) ELSE None

get_entry(z, idx) ==
    IF idx >= 0 /\ idx < Len(z.entries) THEN Some(z.entries[idx + 1]) ELSE None

get_file(z, name) ==
    LET idx == get_file_index(z, name) IN
    IF idx.some THEN get_entry(z, idx.v) ELSE None

(* ZipFile::get_file_compress_data: the payload slice, read through the    *)
(* local file header; "Panic" when a read or the slice leaves the buffer.  *)
get_file_compress_data(z, idx) ==
    IF ~(idx >= 0 /\ idx < Len(z.entries)) THEN None
    ELSE LET header_offset == z.entries[idx + 1].local_file_header_offset IN
        IF ~InRange(z.data, header_offset, 30) THEN Panic
        ELSE LET file_name_len == get_leu16_value(z.data, header_offset + 26)
                 ext_len == get_leu16_value(z.data, header_offset + 28)
                 compress_size == get_leu32_value(z.data, header_offset + 18)
                 file_start_offset == header_offset + 30 + file_name_len + ext_len
             IN  IF ~InRange(z.data, file_start_offset, compress_size) THEN Panic
                 ELSE Some(Slice(z.data, file_start_offset, file_start_offset + compress_size))

get_uncompress_data(z, name) ==
    LET idx == get_file_index(z, name) IN
    IF ~idx.some THEN None
    ELSE LET raw == get_file_compress_data(z, idx.v) IN
        IF "some" \notin DOMAIN raw THEN raw
        ELSE IF ~raw.some THEN None
        ELSE IF z.entries[idx.v + 1].compress_method = "Stored" THEN Some(raw.v)
        ELSE Some(DeflateDecoder(raw.v))

(***************************************************************************)
(* apk_zip/zip.rs: LocalFileHeader.                                        *)
(***************************************************************************)
LocalFileHeader_from_slice(d, offset) ==
    IF ~InRange(d, offset, 30) THEN Panic
    ELSE LET file_name_len == get_leu16_value(d, offset + 26)
             ext_len == get_leu16_value(d, offset + 28)
             method == convert_from_u16(get_leu16_value(d, offset + 8))
         IN  IF ~InRange(d, offset + 30, file_name_len) THEN Panic
             ELSE IF ~from_utf8_ok(Slice(d, offset + 30, offset + 30 + file_name_len)) THEN Panic
             ELSE IF ~method.some THEN Panic
             ELSE IF file_name_len + ext_len >= U16 THEN Panic
             ELSE IF ~InRange(d, offset + 30, file_name_len + ext_len) THEN Panic
             ELSE [kind |-> "Ok",
                   global_offset |-> offset,
                   compress_method |-> method.v,
                   crc_32 |-> get_leu32_value(d, offset + 14),
                   compressed_size |-> get_leu32_value(d, offset + 18),
                   origin_size |-> get_leu32_value(d, offset + 22),
                   file_name_len |-> file_name_len,
                   ext_len |-> ext_len,
                   file_name |-> Slice(d, offset + 30, offset + 30 + file_name_len),
                   ext_data |-> Slice(d, offset + 30 + file_name_len,
                                      offset + 30 + file_name_len + ext_len)]

get_data_offset(lfh) == lfh.global_offset + lfh.file_name_len + lfh.ext_len + 30

get_data_len(lfh) == lfh.compressed_size

(***************************************************************************)
(* apk_zip/editor.rs: FileHeaderBuilder.                                   *)
(***************************************************************************)
FileHeaderBuilder_from_entry(z, entry) ==
    LET lfh_offset == entry.local_file_header_offset
        file_name_len == get_leu16_value(z.data, lfh_offset + 26)
        ext_start == lfh_offset + 30 + file_name_len
        ext_len == get_leu16_value(z.data, lfh_offset + 28)
        ext_end == ext_start + ext_len
    IN  [file_name |-> entry.file_name,
         compress_method |-> entry.compress_method,
         origin_size |-> entry.origin_size,
         compress_size |-> entry.compressed_size,
         crc32 |-> entry.crc_32,
         lfd_ext |-> IF ext_len = 0 THEN None ELSE Some(Slice(z.data, ext_start, ext_end))]

FileHeaderBuilder_new(file_name, compress_method, origin_size, compress_size, crc) ==
    [file_name |-> file_name,
     compress_method |-> compress_method,
     origin_size |-> origin_size,
     compress_size |-> compress_size,
     crc32 |-> crc,
     lfd_ext |-> None]

(* Mutant: the size is not stored. *)
set_compressed_size_dropped(hb, size) == hb

set_compressed_size(hb, size) == [hb EXCEPT !.compress_size = size]

(* Mutant: the record holds offset 0. *)
write_cd_offset_zero(hb, lfh_offset) ==
    push_leu32(CENTRAL_DIRECTORY)
    \o write_u16(0) \o write_u16(0) \o write_u16(0)
    \o write_u16(value_of(hb.compress_method))
    \o push_leu32(0)
    \o push_leu32(hb.crc32)
    \o push_leu32(hb.compress_size)
    \o push_leu32(hb.origin_size)
    \o write_u16(Len(hb.file_name) % U16)
    \o write_u16(0) \o write_u16(0) \o write_u16(0) \o write_u16(0)
    \o push_leu32(0)
    \o push_leu32(0)
    \o hb.file_name

write_cd(hb, lfh_offset) ==
    push_leu32(CENTRAL_DIRECTORY)
    \o write_u16(0) \o write_u16(0) \o write_u16(0)
    \o write_u16(value_of(hb.compress_method))
    \o push_leu32(0)
    \o push_leu32(hb.crc32)
    \o push_leu32(hb.compress_size)
    \o push_leu32(hb.origin_size)
    \o write_u16(Len(hb.file_name) % U16)
    \o write_u16(0) \o write_u16(0) \o write_u16(0) \o write_u16(0)
    \o push_leu32(0)
    \o push_leu32(lfh_offset)
    \o hb.file_name

(* Mutant: the padding is computed without the extra bytes kept from the source. *)
align_count_without_ext(hb, offset, align) ==
    IF hb.compress_method # "Stored" THEN 0
    ELSE (align - ((offset + 30 + Len(hb.file_name)) % align)) % align

(* The padding write_lfh adds in front of the payload. *)
align_count(hb, offset, align) ==
    LET origin_ext_len == IF hb.lfd_ext.some THEN Len(hb.lfd_ext.v) ELSE 0
        origin_lfd_len == 30 + Len(hb.file_name) + origin_ext_len
    IN  IF hb.compress_method # "Stored" THEN 0
        ELSE (align - ((offset + origin_lfd_len) % align)) % align

(* The bytes write_lfh writes: the header, the name, the extra kept from   *)
(* the source and the padding.                                             *)
LocalHeaderWritten(hb, offset, align) ==
    LET origin_ext_len == IF hb.lfd_ext.some THEN Len(hb.lfd_ext.v) ELSE 0
        new_ext_len == origin_ext_len + align_count(hb, offset, align)
    IN  push_leu32(LOCAL_FILE_HEADER)
        \o write_u16(0) \o write_u16(0)
        \o write_u16(value_of(hb.compress_method))
        \o push_leu32(0)
        \o push_leu32(hb.crc32)
        \o push_leu32(hb.compress_size)
        \o push_leu32(hb.origin_size)
        \o write_u16(Len(hb.file_name) % U16)
        \o write_u16(new_ext_len % U16)
        \o hb.file_name
        \o (IF hb.lfd_ext.some THEN hb.lfd_ext.v ELSE <<>>)
        \o Zeros(align_count(hb, offset, align))

(* Mutant: the count returned leaves the padding out. *)
write_lfh_origin_len(hb, offset, align) ==
    [bytes |-> LocalHeaderWritten(hb, offset, align),
     n |-> 30 + Len(hb.file_name) + (IF hb.lfd_ext.some THEN Len(hb.lfd_ext.v) ELSE 0)]

(* write_lfh: the bytes written and the count returned. *)
write_lfh(hb, offset, align) ==
    [bytes |-> LocalHeaderWritten(hb, offset, align),
     n |-> 30 + Len(hb.file_name)
           + (IF hb.lfd_ext.some THEN Len(hb.lfd_ext.v) ELSE 0)
           + align_count(hb, offset, align)]

(***************************************************************************)
(* apk_zip/editor.rs: ZipEditor.                                           *)
(***************************************************************************)
RECURSIVE ZipEditor_from(_, _)
ZipEditor_from(entries, i) ==
    IF i > Len(entries) THEN <<>>
    ELSE <<[origin_entry |-> entries[i], remove |-> FALSE, edit |-> None]>>
         \o ZipEditor_from(entries, i + 1)

append_file(appended, bytes, file_name, method) ==
    Append(appended, [data |-> bytes, compress_method |-> method, file_name |-> file_name])

(* Mutant: an edit clears the remove flag of the entry. *)
edit_file_revives(editable, z, name, bytes) ==
    LET idx == get_file_index(z, name) IN
    IF ~idx.some \/ ~(idx.v < Len(editable))
    THEN [ret |-> None, editable |-> editable]
    ELSE [ret |-> Some("unit"),
          editable |-> [editable EXCEPT ![idx.v + 1].edit = Some(bytes),
                                        ![idx.v + 1].remove = FALSE]]

(* edit_file and remove_file: the returned Option and the plan after the call. *)
edit_file(editable, z, name, bytes) ==
    LET idx == get_file_index(z, name) IN
    IF ~idx.some \/ ~(idx.v < Len(editable))
    THEN [ret |-> None, editable |-> editable]
    ELSE [ret |-> Some("unit"),
          editable |-> [editable EXCEPT ![idx.v + 1].edit = Some(bytes)]]

remove_file(editable, z, name) ==
    LET idx == get_file_index(z, name) IN
    IF ~idx.some \/ ~(idx.v < Len(editable))
    THEN [ret |-> None, editable |-> editable]
    ELSE [ret |-> Some("unit"),
          editable |-> [editable EXCEPT ![idx.v + 1].remove = TRUE]]

(* One pass of finish's first loop: acc is the writer's bytes (w), the     *)
(* central directory built so far (cd), current_offset and file_count.     *)
EmitSource(z, e, acc, align) ==
    IF e.remove THEN acc
    ELSE LET lfh == LocalFileHeader_from_slice(z.data, e.origin_entry.local_file_header_offset) IN
        IF lfh.kind = "Panic" THEN Panic
        ELSE LET header_build == FileHeaderBuilder_from_entry(z, e.origin_entry)
                 new_local_file_header_offset == acc.current_offset
             IN  IF ~e.edit.some
                 THEN LET h == write_lfh(header_build, acc.current_offset, align)
                          data_start == get_data_offset(lfh)
                      IN  IF ~InRange(z.data, data_start, get_data_len(lfh)) THEN Panic
                          ELSE LET payload == Slice(z.data, data_start, data_start + get_data_len(lfh))
                               IN  [kind |-> "Ok",
                                    w |-> acc.w \o h.bytes \o payload,
                                    cd |-> acc.cd \o write_cd(header_build, new_local_file_header_offset),
                                    current_offset |-> acc.current_offset + h.n + Len(payload),
                                    file_count |-> acc.file_count + 1]
                 ELSE IF e.origin_entry.compress_method = "Stored"
                 THEN LET hb == set_compressed_size(header_build, Len(e.edit.v))
                          h == write_lfh(hb, acc.current_offset, align)
                      IN  [kind |-> "Ok",
                           w |-> acc.w \o h.bytes \o e.edit.v,
                           cd |-> acc.cd \o write_cd(hb, new_local_file_header_offset),
                           current_offset |-> acc.current_offset + h.n + Len(e.edit.v),
                           file_count |-> acc.file_count + 1]
                 ELSE LET compress_data == DeflateEncoder(e.edit.v)
                          hb == [header_build EXCEPT !.origin_size = Len(e.edit.v),
                                                     !.compress_size = Len(compress_data),
                                                     !.crc32 = crc32(e.edit.v)]
                          h == write_lfh(hb, acc.current_offset, align)
                      IN  [kind |-> "Ok",
                           w |-> acc.w \o h.bytes \o compress_data,
                           cd |-> acc.cd \o write_cd(hb, new_local_file_header_offset),
                           current_offset |-> acc.current_offset + h.n + Len(compress_data),
                           file_count |-> acc.file_count + 1]

(* Mutant: the hash is taken over the bytes written, not the bytes given. *)
appended_crc32_of_written(new_entry) ==
    crc32(IF new_entry.compress_method # "Stored"
          THEN DeflateEncoder(new_entry.data) ELSE new_entry.data)

(* The hash finish takes of an appended entry. *)
appended_crc32(new_entry) == crc32(new_entry.data)

(* One pass of finish's second loop. *)
EmitAppended(new_entry, acc, align) ==
    LET crc32_hash == appended_crc32(new_entry)
        payload == IF new_entry.compress_method # "Stored"
                   THEN DeflateEncoder(new_entry.data) ELSE new_entry.data
        file_header == FileHeaderBuilder_new(new_entry.file_name, new_entry.compress_method,
                                             Len(new_entry.data), Len(payload), crc32_hash)
        h == write_lfh(file_header, acc.current_offset, align)
    IN  [kind |-> "Ok",
         w |-> acc.w \o h.bytes \o payload,
         cd |-> acc.cd \o write_cd(file_header, acc.current_offset),
         current_offset |-> acc.current_offset + h.n + Len(payload),
         file_count |-> acc.file_count + 1]

RECURSIVE EmitSources(_, _, _, _, _)
EmitSources(z, editable, i, acc, align) ==
    IF acc.kind = "Panic" \/ i > Len(editable) THEN acc
    ELSE EmitSources(z, editable, i + 1, EmitSource(z, editable[i], acc, align), align)

RECURSIVE EmitAppendeds(_, _, _, _)
EmitAppendeds(appended, i, acc, align) ==
    IF acc.kind = "Panic" \/ i > Len(appended) THEN acc
    ELSE EmitAppendeds(appended, i + 1, EmitAppended(appended[i], acc, align), align)

(* The end-of-central-directory record finish writes. *)
WriteEnd(file_count, cd_len, central_directory_offset) ==
    push_leu32(CENTRAL_DIRECTORY_END)
    \o write_u16(0) \o write_u16(0)
    \o write_u16(file_count) \o write_u16(file_count)
    \o push_leu32(cd_len)
    \o push_leu32(central_directory_offset)
    \o write_u16(0)

(* ZipEditor::finish: the bytes written to the writer, or a panic. *)
finish(z, editable, appended, align) ==
    LET start == [kind |-> "Ok", w |-> <<>>, cd |-> <<>>, current_offset |-> 0, file_count |-> 0]
        acc == EmitAppendeds(appended, 1, EmitSources(z, editable, 1, start, align), align)
    IN  IF acc.kind = "Panic" THEN Panic
        ELSE [kind |-> "Ok",
              bytes |-> acc.w \o acc.cd \o WriteEnd(acc.file_count, Len(acc.cd), acc.current_offset)]

(***************************************************************************)
(* Names, as UTF-8 bytes.                                                  *)
(***************************************************************************)
StrClasses == <<99, 108, 97, 115, 115, 101, 115>>
StrDotDex == <<46, 100, 101, 120>>
StrAssets == <<97, 115, 115, 101, 116, 115, 47>>
StrManifest == <<65, 110, 100, 114, 111, 105, 100, 77, 97, 110, 105, 102, 101, 115, 116,
                 46, 120, 109, 108>>
StrA == <<97>>
StrB == <<98>>
StrZ == <<122>>

starts_with(name, prefix) ==
    Len(name) >= Len(prefix) /\ SubSeq(name, 1, Len(prefix)) = prefix

ends_with(name, suffix) ==
    Len(name) >= Len(suffix) /\ SubSeq(name, Len(name) - Len(suffix) + 1, Len(name)) = suffix

(* usize::to_string: the decimal digits. *)
RECURSIVE to_string(_)
to_string(n) == IF n < 10 THEN <<48 + n>> ELSE to_string(n \div 10) \o <<48 + (n % 10)>>

(***************************************************************************)
(* apk_zip/wrap.rs: ApkFile.                                               *)
(***************************************************************************)
count_dex(z) ==
    Cardinality({name \in DOMAIN z.file_name_map :
                    starts_with(name, StrClasses) /\ ends_with(name, StrDotDex)})

dex_file_name(count) == StrClasses \o to_string(count) \o StrDotDex

assets_path(name) == StrAssets \o name

(***************************************************************************)
(* The source archives ApkFile::from is given: each is laid out as a ZIP   *)
(* writer lays it out (local headers and payloads, the central directory,  *)
(* the end record and its comment) from a list of file descriptions.  A    *)
(* description states the local header's and the central record's fields   *)
(* apart, since the format lets them differ (a data-descriptor entry has   *)
(* local sizes and CRC of 0).                                              *)
(***************************************************************************)
LocalHeaderBytes(f) ==
    push_leu32(LOCAL_FILE_HEADER)
    \o write_u16(20) \o write_u16(f.flags) \o write_u16(f.method)
    \o push_leu32(0)
    \o push_leu32(f.lcrc) \o push_leu32(f.lsize) \o push_leu32(f.lusize)
    \o write_u16(Len(f.name)) \o write_u16(Len(f.lext))
    \o f.name \o f.lext \o f.stored \o f.trailer

CentralRecordBytes(f, offset) ==
    push_leu32(CENTRAL_DIRECTORY)
    \o write_u16(20) \o write_u16(20) \o write_u16(f.flags) \o write_u16(f.method)
    \o push_leu32(0)
    \o push_leu32(f.crc) \o push_leu32(f.csize) \o push_leu32(f.usize)
    \o write_u16(Len(f.name)) \o write_u16(Len(f.cext)) \o write_u16(Len(f.ccomment))
    \o write_u16(0) \o write_u16(0) \o push_leu32(0)
    \o push_leu32(offset)
    \o f.name \o f.cext \o f.ccomment

RECURSIVE LayOut(_, _, _, _)
LayOut(files, i, w, cd) ==
    IF i > Len(files) THEN [w |-> w, cd |-> cd]
    ELSE LayOut(files, i + 1, w \o LocalHeaderBytes(files[i]),
                cd \o CentralRecordBytes(files[i], Len(w)))

MakeArchive(files, comment) ==
    LET laid == LayOut(files, 1, <<>>, <<>>) IN
    laid.w \o laid.cd
    \o push_leu32(CENTRAL_DIRECTORY_END)
    \o write_u16(0) \o write_u16(0)
    \o write_u16(Len(files)) \o write_u16(Len(files))
    \o push_leu32(Len(laid.cd)) \o push_leu32(Len(laid.w))
    \o write_u16(Len(comment))
    \o comment

FileWith(name, method, flags, bytes, stored, lext) ==
    [name |-> name, method |-> method, flags |-> flags, stored |-> stored,
     crc |-> crc32(bytes), csize |-> Len(stored), usize |-> Len(bytes),
     lcrc |-> crc32(bytes), lsize |-> Len(stored), lusize |-> Len(bytes),
     lext |-> lext, cext |-> <<>>, ccomment |-> <<>>, trailer |-> <<>>]

StoredFile(name, bytes, lext) == FileWith(name, 0, 0, bytes, bytes, lext)

DeflatedFile(name, bytes) == FileWith(name, 8, 0, bytes, DeflateEncoder(bytes), <<>>)

(* An entry written in streaming mode: flag bit 3, the local CRC and sizes *)
(* 0, the true values in the data descriptor after the payload and in the  *)
(* central record.                                                         *)
DescriptorFile(f) ==
    [f EXCEPT !.flags = 8, !.lcrc = 0, !.lsize = 0, !.lusize = 0,
              !.trailer = push_leu32(134695760) \o push_leu32(f.crc)
                          \o push_leu32(f.csize) \o push_leu32(f.usize)]

SourceArchives == <<
    \* 1: no entries
    MakeArchive(<<>>, <<>>),
    \* 2: a manifest and a stored dex whose payload is not 4-aligned
    MakeArchive(<<DeflatedFile(StrManifest, <<1, 2>>),
                  StoredFile(StrClasses \o StrDotDex, <<3>>, <<>>)>>, <<>>),
    \* 3: classes.dex and classes2.dex
    MakeArchive(<<StoredFile(StrClasses \o StrDotDex, <<4, 5>>, <<>>),
                  DeflatedFile(StrClasses \o <<50>> \o StrDotDex, <<6>>)>>, <<>>),
    \* 4: two records with the same name
    MakeArchive(<<StoredFile(StrA, <<1>>, <<>>),
                  StoredFile(StrA, <<2, 3>>, <<>>)>>, <<>>),
    \* 5: a data-descriptor entry, then a stored one
    MakeArchive(<<DescriptorFile(StoredFile(StrA, <<7, 8>>, <<>>)),
                  StoredFile(StrB, <<9>>, <<>>)>>, <<>>),
    \* 6: local extra bytes, central extra and comment, an archive comment
    MakeArchive(<<[StoredFile(StrA, <<1, 2, 3>>, <<202, 254>>)
                      EXCEPT !.cext = <<1, 0, 0, 0>>, !.ccomment = <<33>>]>>,
                <<104, 105, 33>>),
    \* 7: a record with compression method 1
    MakeArchive(<<[StoredFile(StrA, <<1>>, <<>>) EXCEPT !.method = 1]>>, <<>>),
    \* 8: no entries and a comment of one byte
    MakeArchive(<<>>, <<33>>),
    \* 9: no entries and a comment of five bytes
    MakeArchive(<<>>, <<104, 101, 108, 108, 111>>),
    \* 10: a buffer shorter than an end record
    <<80, 75, 5, 6>>,
    \* 11: an end record alone, stating one record at offset 100
    [MakeArchive(<<>>, <<>>) EXCEPT ![10 + 1] = 1, ![16 + 1] = 100],
    \* 12: one entry whose central record, at offset 32, states a name of
    \*     200 bytes
    [MakeArchive(<<StoredFile(StrA, <<1>>, <<>>)>>, <<>>) EXCEPT ![32 + 28 + 1] = 200]
>>

(***************************************************************************)
(* Bounds of the model and the arguments of the calls.                     *)
(***************************************************************************)
MaxAppend == 2
MaxPayload == 2

Payloads == {<<>>, [i \in 1..MaxPayload |-> 10 + i]}
DexPayloads == {<<100, 101>>}
EditNames == {StrA, StrClasses \o StrDotDex, StrZ}
AddNames == {StrB}
Methods == {"Stored", "Deflated"}
AlignValues == {3, 8}

(***************************************************************************)
(* ApkFile::from, and the state after construction.  When ZipFile::from    *)
(* fails or panics there is no ApkFile: zip holds the failure and no       *)
(* method can be called.                                                   *)
(***************************************************************************)
Call(op, name, align, ret, out) ==
    [op |-> op, name |-> name, align |-> align, ret |-> ret, out |-> out]

ApkFile_from(d) ==
    LET z == ZipFile_from(d) IN
    IF z.kind # "Ok"
    THEN [zip |-> z, editable_entries |-> <<>>, dex_count |-> 0]
    ELSE [zip |-> z,
          editable_entries |-> ZipEditor_from(z.entries, 1),
          dex_count |-> count_dex(z)]

NoManifest ==
    /\ mdata = <<>>
    /\ xml = [kind |-> "Absent"]
    /\ string_chunk_builder = [string_index_map |-> <<>>, string_arr |-> <<>>]
    /\ application_node_index = 0
    /\ mlast = [op |-> "none"]
    /\ mprev = [op |-> "none"]
    /\ put_calls = <<>>

Init ==
    /\ \E i \in 1..Len(SourceArchives) :
        /\ data = SourceArchives[i]
        /\ LET apk == ApkFile_from(SourceArchives[i]) IN
            /\ zip = apk.zip
            /\ editable_entries = apk.editable_entries
            /\ dex_count = apk.dex_count
    /\ append_entries = <<>>
    /\ dex_names = <<>>
    /\ last = Call("from", <<>>, 0, zip.kind, <<>>)
    /\ NoManifest

Live == zip.kind = "Ok" /\ last.ret # "Panic"

add_file(path, bytes, method) ==
    /\ Live
    /\ Len(append_entries) < MaxAppend
    /\ append_entries' = append_file(append_entries, bytes, path, method)
    /\ last' = Call("add_file", path, 0, "Unit", <<>>)
    /\ UNCHANGED <<data, zip, editable_entries, dex_count, dex_names, axmlVars>>

add_dex(bytes) ==
    /\ Live
    /\ Len(append_entries) < MaxAppend
    /\ append_entries' = append_file(append_entries, bytes, dex_file_name(dex_count), "Deflated")
    /\ dex_count' = dex_count + 1
    /\ dex_names' = Append(dex_names, dex_file_name(dex_count))
    /\ last' = Call("add_dex", dex_file_name(dex_count), 0, "Unit", <<>>)
    /\ UNCHANGED <<data, zip, editable_entries, axmlVars>>

add_assets(name, bytes) ==
    /\ Live
    /\ Len(append_entries) < MaxAppend
    /\ append_entries' = append_file(append_entries, bytes, assets_path(name), "Deflated")
    /\ last' = Call("add_assets", assets_path(name), 0, "Unit", <<>>)
    /\ UNCHANGED <<data, zip, editable_entries, dex_count, dex_names, axmlVars>>

ApkFile_edit_file(path, bytes) ==
    /\ Live
    /\ LET r == edit_file(editable_entries, zip, path, bytes) IN
        /\ editable_entries' = r.editable
        /\ last' = Call("edit_file", path, 0, IF r.ret.some THEN "Some" ELSE "None", <<>>)
    /\ UNCHANGED <<data, zip, append_entries, dex_count, dex_names, axmlVars>>

set_manifest(bytes) ==
    /\ Live
    /\ editable_entries' = edit_file(editable_entries, zip, StrManifest, bytes).editable
    /\ last' = Call("set_manifest", StrManifest, 0, "Unit", <<>>)
    /\ UNCHANGED <<data, zip, append_entries, dex_count, dex_names, axmlVars>>

ApkFile_remove_file(path) ==
    /\ Live
    /\ LET r == remove_file(editable_entries, zip, path) IN
        /\ editable_entries' = r.editable
        /\ last' = Call("remove_file", path, 0, IF r.ret.some THEN "Some" ELSE "None", <<>>)
    /\ UNCHANGED <<data, zip, append_entries, dex_count, dex_names, axmlVars>>

(* ZipEditor::finish(Some(zip), writer, align), called on the plan. *)
ZipEditor_finish(op, align) ==
    /\ Live
    /\ LET r == finish(zip, editable_entries, append_entries, align) IN
        last' = Call(op, <<>>, align, r.kind, IF r.kind = "Ok" THEN r.bytes ELSE <<>>)
    /\ UNCHANGED <<data, zip, editable_entries, append_entries, dex_count, dex_names, axmlVars>>

save == ZipEditor_finish("save", SaveAlign)

Next ==
    \/ \E path \in AddNames, bytes \in Payloads, method \in Methods : add_file(path, bytes, method)
    \/ \E bytes \in DexPayloads : add_dex(bytes)
    \/ \E name \in AddNames, bytes \in DexPayloads : add_assets(name, bytes)
    \/ \E path \in EditNames, bytes \in Payloads : ApkFile_edit_file(path, bytes)
    \/ \E bytes \in Payloads : set_manifest(bytes)
    \/ \E path \in EditNames : ApkFile_remove_file(path)
    \/ save
    \/ \E align \in AlignValues : ZipEditor_finish("finish", align)

Spec == Init /\ [][Next]_vars

(***************************************************************************)
(* manifest/axml.rs.  A String is the sequence of its code points; the     *)
(* results of the parsers are records whose kind is "Ok", "Err" (the       *)
(* function returned Err) or "Panic".                                      *)
(***************************************************************************)
START_TAG == 1048834
END_TAG == 1048835
START_NAMESPACE == 1048832
END_NAMESPACE == 1048833
STRING_CHUNK == 1835009
RESOURCE_CHUNK == 524672
XML_MAGIC == 524291
NoIndex == -1
AttrTypeString == 50331656
TagFlag == 1310740

StrAndroidUri == <<104, 116, 116, 112, 58, 47, 47, 115, 99, 104, 101, 109, 97, 115,
                   46, 97, 110, 100, 114, 111, 105, 100, 46, 99, 111, 109, 47, 97,
                   112, 107, 47, 114, 101, 115, 47, 97, 110, 100, 114, 111, 105, 100>>
StrName == <<110, 97, 109, 101>>
StrAuthorities == <<97, 117, 116, 104, 111, 114, 105, 116, 105, 101, 115>>
StrActivity == <<97, 99, 116, 105, 118, 105, 116, 121>>
StrProvider == <<112, 114, 111, 118, 105, 100, 101, 114>>
StrApplication == <<97, 112, 112, 108, 105, 99, 97, 116, 105, 111, 110>>

FileFormatError == [kind |-> "Err"]

(* str::len: the number of bytes of the UTF-8 form, one to four per code   *)
(* point.                                                                  *)
str_len(s) ==
    Len(s) + Cardinality({i \in 1..Len(s) : s[i] >= 128})
           + Cardinality({i \in 1..Len(s) : s[i] >= 2048})
           + Cardinality({i \in 1..Len(s) : s[i] >= 65536})

(* The index of the first UTF-16 unit of code point i of s. *)
utf16_position(s, i) == i + Cardinality({j \in 1..(i - 1) : s[j] >= 65536})

(* str::encode_utf16: one unit per code point of the basic plane, a        *)
(* surrogate pair above it.                                                *)
encode_utf16(s) ==
    IF \A i \in 1..Len(s) : s[i] < 65536 THEN s
    ELSE
    [k \in 1..(Len(s) + Cardinality({i \in 1..Len(s) : s[i] >= 65536})) |->
        LET i == CHOOSE j \in 1..Len(s) :
                    \/ utf16_position(s, j) = k
                    \/ s[j] >= 65536 /\ utf16_position(s, j) + 1 = k
        IN  IF s[i] < 65536 THEN s[i]
            ELSE IF utf16_position(s, i) = k THEN 55296 + ((s[i] - 65536) \div 1024)
            ELSE 56320 + ((s[i] - 65536) % 1024)]

IsHighSurrogate(c) == c >= 55296 /\ c <= 56319
IsLowSurrogate(c) == c >= 56320 /\ c <= 57343

(* String::from_utf16: Err on a surrogate that is not part of a pair; a    *)
(* code point starts at every unit that is not the low half of a pair.     *)
from_utf16(units) ==
    CHOOSE r \in
        {IF \E i \in 1..Len(u) :
             \/ IsHighSurrogate(u[i]) /\ (i = Len(u) \/ ~IsLowSurrogate(u[i + 1]))
             \/ IsLowSurrogate(u[i]) /\ (i = 1 \/ ~IsHighSurrogate(u[i - 1]))
         THEN [kind |-> "Err"]
         ELSE IF \A i \in 1..Len(u) : ~IsHighSurrogate(u[i]) THEN [kind |-> "Ok", s |-> u]
         ELSE LET starts == {i \in 1..Len(u) : ~IsLowSurrogate(u[i])} IN
              [kind |-> "Ok",
               s |-> [k \in 1..Cardinality(starts) |->
                         LET i == CHOOSE j \in starts :
                                     Cardinality({m \in starts : m <= j}) = k
                         IN  IF IsHighSurrogate(u[i])
                             THEN 65536 + (u[i] - 55296) * 1024 + (u[i + 1] - 56320)
                             ELSE u[i]]] :
         u \in {units}} : TRUE

(* A read of four bytes at offset off by get_le32_value / get_leu32_value: *)
(* an index out of range panics.                                           *)
CanRead32(d, off) == InRange(d, off, 4)

(* StringChunk::parse at current_offset off. *)
StringChunk_parse(d, off) ==
    IF ~CanRead32(d, off) THEN Panic
    ELSE IF get_le32_value(d, off) # STRING_CHUNK THEN FileFormatError
    ELSE IF ~InRange(d, off, 28) THEN Panic
    ELSE LET chunk_size == get_leu32_value(d, off + 4) IN
         IF chunk_size < 0 THEN Panic
         ELSE [kind |-> "Ok",
               string_chunk |->
                   [chunk_offset |-> off,
                    chunk_size |-> chunk_size,
                    string_count |-> get_leu32_value(d, off + 8),
                    style_count |-> get_leu32_value(d, off + 12),
                    string_pool_offset |-> get_leu32_value(d, off + 20),
                    style_pool_offset |-> get_leu32_value(d, off + 24),
                    string_index_global_offset |-> off + 28,
                    style_index_global_offset |-> off + 32],
               off |-> off + chunk_size]

(* StringChunk::get_string(index). *)
get_string(d, sc, index) ==
    IF index < 0 \/ index > Len(d) \/ ~CanRead32(d, sc.string_index_global_offset + 4 * index)
    THEN Panic
    ELSE LET rel == get_leu32_value(d, sc.string_index_global_offset + 4 * index)
             pool == sc.string_pool_offset
         IN  IF rel < 0 \/ rel > Len(d) \/ pool < 0 \/ pool > Len(d) THEN Panic
             ELSE LET string_offset == pool + sc.chunk_offset + rel IN
                  IF ~InRange(d, string_offset, 2) THEN Panic
                  ELSE LET string_len == get_leu16_value(d, string_offset) IN
                       IF string_len > 0 /\ ~InRange(d, string_offset + 2, 2 * string_len)
                       THEN Panic
                       ELSE from_utf16([i \in 1..string_len |->
                                get_leu16_value(d, string_offset + 2 * i)])

(***************************************************************************)
(* StringChunkBuilder: string_index_map is a function from the strings to  *)
(* their indices, string_arr the strings in index order.                   *)
(***************************************************************************)
StringChunkBuilder_new == [string_index_map |-> <<>>, string_arr |-> <<>>]

(* put that pushes the string without looking it up first *)
put_always_push(b, value) ==
    [builder |-> [string_index_map |->
                      [x \in DOMAIN b.string_index_map \cup {value} |->
                          IF x = value THEN Len(b.string_arr) ELSE b.string_index_map[x]],
                  string_arr |-> Append(b.string_arr, value)],
     ret |-> Len(b.string_arr)]

(* StringChunkBuilder::put: the builder after the call and the index       *)
(* returned.                                                               *)
put(b, value) ==
    IF value \in DOMAIN b.string_index_map
    THEN [builder |-> b, ret |-> b.string_index_map[value]]
    ELSE LET res == Cardinality(DOMAIN b.string_index_map) IN
         [builder |-> [string_index_map |->
                           [x \in DOMAIN b.string_index_map \cup {value} |->
                               IF x = value THEN res ELSE b.string_index_map[x]],
                       string_arr |-> Append(b.string_arr, value)],
          ret |-> res]

(* put(values[lo]), ..., put(values[hi]) in this order: the builder after  *)
(* the calls and the indices they returned.  The range is halved to keep   *)
(* the evaluation shallow.                                                 *)
RECURSIVE put_range(_, _, _, _)
put_range(b, values, lo, hi) ==
    IF lo > hi THEN [builder |-> b, rets |-> <<>>]
    ELSE IF lo = hi
    THEN CHOOSE r \in {[builder |-> p.builder, rets |-> <<p.ret>>] :
                       p \in {put(b, values[lo])}} : TRUE
    ELSE CHOOSE r \in
            {CHOOSE q \in {[builder |-> right.builder, rets |-> left.rets \o right.rets] :
                           right \in {put_range(left.builder, values,
                                                ((lo + hi) \div 2) + 1, hi)}} : TRUE :
             left \in {put_range(b, values, lo, (lo + hi) \div 2)}} : TRUE

(* StringChunkBuilder::init: put(get_string(i).unwrap()) for i from 0 to   *)
(* string_count - 1.  A string_count larger than the buffer has an index   *)
(* entry past its end, whose read panics.                                  *)
init(b, d, sc) ==
    IF sc.string_count < 0 \/ sc.string_count > Len(d) THEN Panic
    ELSE CHOOSE r \in
            {IF \E i \in 1..Len(strings) : strings[i].kind # "Ok" THEN Panic
             ELSE [kind |-> "Ok",
                   builder |-> put_range(b, [i \in 1..Len(strings) |-> strings[i].s],
                                         1, Len(strings)).builder] :
             strings \in {[i \in 1..sc.string_count |-> get_string(d, sc, i - 1)]}} : TRUE

(* Little-endian words, as push_leu32 pushes them one after the other. *)
Words(values) ==
    CHOOSE r \in {[k \in 1..(4 * Len(ws)) |->
                      push_leu32(ws[(k + 3) \div 4])[((k - 1) % 4) + 1]] :
                  ws \in {values}} : TRUE

(* build: the u16 units as bytes. *)
UnitBytes(u) ==
    [k \in 1..(2 * Len(u)) |->
        IF k % 2 = 1 THEN u[(k + 1) \div 2] % 256 ELSE u[k \div 2] \div 256]

(* build: current_str_offset when the first loop reaches string i. *)
RECURSIVE current_str_offset(_, _)
current_str_offset(sizes, i) ==
    IF i <= 1 THEN 0 ELSE current_str_offset(sizes, i - 1) + sizes[i - 1]

(* build: the string data of strings lo..hi, a length prefix, the units    *)
(* and a terminator per string.                                            *)
RECURSIVE BuildStrings(_, _, _)
BuildStrings(arr, lo, hi) ==
    IF lo > hi THEN <<>>
    ELSE IF lo = hi
    THEN write_u16(str_len(arr[lo]) % U16) \o UnitBytes(encode_utf16(arr[lo])) \o <<0, 0>>
    ELSE BuildStrings(arr, lo, (lo + hi) \div 2)
         \o BuildStrings(arr, ((lo + hi) \div 2) + 1, hi)

(* Mutant: no padding after the strings. *)
build_unpadded(b) ==
    CHOOSE r \in
        {LET n == Len(b.string_arr)
             unpadded == 28 + 4 * n + Len(strings)
         IN  push_le32(STRING_CHUNK) \o push_leu32(unpadded)
             \o Words(<<n, 0, 0, 7 * 4 + n * 4, 0>>)
             \o Words([i \in 1..n |-> current_str_offset(sizes, i)])
             \o strings :
         strings \in {BuildStrings(b.string_arr, 1, Len(b.string_arr))},
         sizes \in {[j \in 1..Len(b.string_arr) |-> 2 + str_len(b.string_arr[j]) * 2 + 2]}} : TRUE

(* StringChunkBuilder::build. *)
build(b) ==
    CHOOSE r \in
        {LET n == Len(b.string_arr)
             unpadded == 28 + 4 * n + Len(strings)
             align_len == 4 - (unpadded % 4)
             padding == IF align_len < 4 THEN Zeros(align_len) ELSE <<>>
         IN  push_le32(STRING_CHUNK) \o push_leu32(unpadded + Len(padding))
             \o Words(<<n, 0, 0, 7 * 4 + n * 4, 0>>)
             \o Words([i \in 1..n |-> current_str_offset(sizes, i)])
             \o strings \o padding :
         strings \in {BuildStrings(b.string_arr, 1, Len(b.string_arr))},
         sizes \in {[j \in 1..Len(b.string_arr) |-> 2 + str_len(b.string_arr[j]) * 2 + 2]}} : TRUE

(* XmlAttributeValue::new_attr: the attribute and the builder after        *)
(* put(value).                                                             *)
new_attr(idx, name, value, b) ==
    CHOOSE r \in
        {[attr |-> [namespace_uri |-> Some(StrAndroidUri), name_index |-> idx,
                    name |-> name, value_type |-> AttrTypeString,
                    string_data |-> Some(value), data |-> p.ret],
          builder |-> p.builder] :
         p \in {put(b, value)}} : TRUE

(* ResourceChunk::parse at current_offset off.  chunk_size / 4 - 2 below   *)
(* zero is an arithmetic overflow.                                         *)
ResourceChunk_parse(d, off) ==
    IF ~InRange(d, off, 8) THEN Panic
    ELSE LET chunk_size == get_leu32_value(d, off + 4) IN
         IF get_le32_value(d, off) # RESOURCE_CHUNK THEN FileFormatError
         ELSE IF chunk_size < 8 THEN Panic
         ELSE [kind |-> "Ok",
               resource_chunk |-> [chunk_offset |-> off, chunk_size |-> chunk_size,
                                   chunk_count |-> (chunk_size \div 4) - 2],
               off |-> off + chunk_size]

(* XmlNameSpace::parse at current_offset off. *)
XmlNameSpace_parse(d, sc, off) ==
    IF ~CanRead32(d, off) THEN Panic
    ELSE IF get_le32_value(d, off) # START_NAMESPACE THEN FileFormatError
    ELSE IF ~InRange(d, off, 24) THEN Panic
    ELSE LET prefix == get_string(d, sc, get_leu32_value(d, off + 16)) IN
         IF prefix.kind # "Ok" THEN prefix
         ELSE LET uri == get_string(d, sc, get_leu32_value(d, off + 20)) IN
              IF uri.kind # "Ok" THEN uri
              ELSE LET size == get_leu32_value(d, off + 4) IN
                   IF size < 0 THEN Panic
                   ELSE [kind |-> "Ok", prefix |-> prefix.s, uri |-> uri.s,
                         off |-> off + size]

(* XmlNameSpace::valid_end_chunk at current_offset off. *)
valid_end_chunk(ns, d, sc, off) ==
    IF ~CanRead32(d, off) THEN Panic
    ELSE IF get_le32_value(d, off) # END_NAMESPACE THEN FileFormatError
    ELSE IF ~InRange(d, off, 24) THEN Panic
    ELSE LET prefix == get_string(d, sc, get_leu32_value(d, off + 16)) IN
         IF prefix.kind # "Ok" THEN prefix
         ELSE LET uri == get_string(d, sc, get_leu32_value(d, off + 20)) IN
              IF uri.kind # "Ok" THEN uri
              ELSE IF prefix.s # ns.prefix \/ uri.s # ns.uri THEN FileFormatError
              ELSE [kind |-> "Ok"]

(* parse_node_recursion: the n attributes of a START_TAG, from offset off. *)
RECURSIVE ParseAttrs(_, _, _, _, _)
ParseAttrs(d, sc, offset, count, parsed) ==
    CHOOSE r \in
        {IF n <= 0 THEN [kind |-> "Ok", attrs |-> attrs, off |-> off]
         ELSE IF ~InRange(d, off, 20) THEN Panic
         ELSE LET namespace_si == get_leu32_value(d, off)
                  attr_name_si == get_leu32_value(d, off + 4)
                  attr_raw_value == get_leu32_value(d, off + 8)
                  attr_name == get_string(d, sc, attr_name_si)
                  namespace_uri == IF namespace_si = NoIndex THEN [kind |-> "Ok"]
                                   ELSE get_string(d, sc, namespace_si)
                  string_data == IF attr_raw_value = NoIndex THEN [kind |-> "Ok"]
                                 ELSE get_string(d, sc, attr_raw_value)
              IN  IF attr_name.kind # "Ok" THEN attr_name
                  ELSE IF namespace_uri.kind # "Ok" THEN namespace_uri
                  ELSE IF string_data.kind # "Ok" THEN string_data
                  ELSE ParseAttrs(d, sc, off + 20, n - 1, Append(attrs,
                         [namespace_uri |-> IF namespace_si = NoIndex THEN None
                                            ELSE Some(namespace_uri.s),
                          name_index |-> attr_name_si,
                          name |-> attr_name.s,
                          value_type |-> get_leu32_value(d, off + 12),
                          string_data |-> IF attr_raw_value = NoIndex THEN None
                                          ELSE Some(string_data.s),
                          data |-> get_leu32_value(d, off + 16)])) :
         off \in {offset}, n \in {count}, attrs \in {parsed}} : TRUE

(* XmlNode::parse_node_recursion at current_offset off: the node and the   *)
(* offset after it.  ParseBody is the while loop after the attributes.     *)
RECURSIVE parse_node_recursion(_, _, _)
RECURSIVE ParseBody(_, _, _, _)
ParseBody(d, sc, node, offset) ==
    CHOOSE r \in
        {IF off >= Len(d) THEN [kind |-> "Ok", node |-> res, off |-> off]
         ELSE IF ~CanRead32(d, off) THEN Panic
         ELSE IF get_le32_value(d, off) = START_TAG
         THEN CHOOSE q \in
                {IF child.kind # "Ok" THEN child
                 ELSE ParseBody(d, sc,
                                [res EXCEPT !.children = Append(@, child.node)],
                                child.off) :
                 child \in {parse_node_recursion(d, sc, off)}} : TRUE
         ELSE IF get_le32_value(d, off) = END_TAG
         THEN IF ~InRange(d, off, 24) THEN Panic
              ELSE LET current_name == get_string(d, sc, get_leu32_value(d, off + 20)) IN
                   IF current_name.kind # "Ok" THEN current_name
                   ELSE IF current_name.s = res.tag_name
                   THEN [kind |-> "Ok", node |-> res, off |-> off + 24]
                   ELSE ParseBody(d, sc, res, off + 24)
         ELSE FileFormatError :
         res \in {node}, off \in {offset}} : TRUE

parse_node_recursion(d, sc, offset) ==
    CHOOSE r \in
        {IF ~InRange(d, off, 24) THEN Panic
         ELSE IF get_le32_value(d, off) # START_TAG THEN FileFormatError
         ELSE IF ~InRange(d, off, 32) THEN Panic
         ELSE LET tag_name == get_string(d, sc, get_leu32_value(d, off + 20)) IN
              IF tag_name.kind # "Ok" THEN tag_name
              ELSE CHOOSE q \in
                    {IF attrs.kind # "Ok" THEN attrs
                     ELSE ParseBody(d, sc,
                                    [tag_name |-> tag_name.s, attrs |-> attrs.attrs,
                                     children |-> <<>>],
                                    attrs.off) :
                     attrs \in {ParseAttrs(d, sc, off + 36, get_le32_value(d, off + 28),
                                           <<>>)}} : TRUE :
         off \in {offset}} : TRUE

(* What regenerate and to_data push: a word, or the index returned by a    *)
(* put of a string.                                                        *)
Word(v) == [put |-> FALSE, w |-> v]
PutWord(s) == [put |-> TRUE, s |-> s]
IsPut(item) == item.put

(* XmlNode::regenerate: the attributes from the i-th on. *)
RECURSIVE RegenerateAttrs(_, _)
RegenerateAttrs(attrs, i) ==
    IF i > Len(attrs) THEN <<>>
    ELSE <<IF attrs[i].namespace_uri.some THEN PutWord(attrs[i].namespace_uri.v)
           ELSE Word(NoIndex),
           Word(attrs[i].name_index),
           IF attrs[i].string_data.some THEN PutWord(attrs[i].string_data.v)
           ELSE Word(NoIndex),
           Word(attrs[i].value_type),
           Word(attrs[i].data)>>
         \o RegenerateAttrs(attrs, i + 1)

(* XmlNode::regenerate: the words pushed, in order. *)
RECURSIVE regenerate(_)
RECURSIVE RegenerateChildren(_, _)
RegenerateChildren(children, i) ==
    IF i > Len(children) THEN <<>>
    ELSE regenerate(children[i]) \o RegenerateChildren(children, i + 1)

regenerate(node) ==
    <<Word(START_TAG), Word(9 * 4 + Len(node.attrs) * 5 * 4), Word(1), Word(NoIndex),
      Word(NoIndex), PutWord(node.tag_name), Word(TagFlag), Word(Len(node.attrs)),
      Word(0)>>
    \o RegenerateAttrs(node.attrs, 1)
    \o RegenerateChildren(node.children, 1)
    \o <<Word(END_TAG), Word(6 * 4), Word(1), Word(NoIndex), Word(NoIndex),
         PutWord(node.tag_name)>>

(* XmlContent::parse at current_offset off. *)
XmlContent_parse(d, sc, off) ==
    CHOOSE r \in
        {IF namespace.kind # "Ok" THEN namespace
         ELSE CHOOSE q \in
                {IF root.kind # "Ok" THEN root
                 ELSE LET end == valid_end_chunk(namespace, d, sc, root.off) IN
                      IF end.kind # "Ok" THEN end
                      ELSE [kind |-> "Ok",
                            content |-> [namespace_prefix |-> namespace.prefix,
                                         namespace_uri |-> namespace.uri,
                                         root_node |-> root.node]] :
                 root \in {parse_node_recursion(d, sc, namespace.off)}} : TRUE :
         namespace \in {XmlNameSpace_parse(d, sc, off)}} : TRUE

(* to_data: the words pushed, in order. *)
content_words(content) ==
    <<Word(START_NAMESPACE), Word(4 * 6), Word(1), Word(NoIndex),
      PutWord(content.namespace_prefix), PutWord(content.namespace_uri)>>
    \o regenerate(content.root_node)
    \o <<Word(END_NAMESPACE), Word(4 * 6), Word(1), Word(NoIndex),
         PutWord(content.namespace_prefix), PutWord(content.namespace_uri)>>

(* The strings put while items are pushed, in call order. *)
put_values(items) ==
    CHOOSE r \in {[i \in 1..Len(puts) |-> puts[i].s] :
                  puts \in {SelectSeq(items, IsPut)}} : TRUE

(* XmlContent::to_data: the bytes returned and the builder after its puts; *)
(* the k-th put among the items pushes the index that put returned.        *)
to_data(content, b) ==
    CHOOSE r \in
        {CHOOSE q \in
            {[bytes |-> Words([k \in 1..Len(items) |->
                                 IF items[k].put
                                 THEN done.rets[Cardinality({j \in 1..k : items[j].put})]
                                 ELSE items[k].w]),
              builder |-> done.builder] :
             done \in {put_range(b, put_values(items), 1,
                                 Len(SelectSeq(items, IsPut)))}} : TRUE :
         items \in {content_words(content)}} : TRUE

(* AndroidXml::from_data. *)
AndroidXml_from_data(d) ==
    IF ~CanRead32(d, 0) THEN Panic
    ELSE IF get_le32_value(d, 0) # XML_MAGIC THEN FileFormatError
    ELSE IF ~CanRead32(d, 4) THEN Panic
    ELSE IF get_le32_value(d, 4) # Len(d) THEN FileFormatError
    ELSE CHOOSE r \in
        {IF string_chunk.kind # "Ok" THEN string_chunk
         ELSE LET resource_chunk == ResourceChunk_parse(d, string_chunk.off) IN
              IF resource_chunk.kind # "Ok" THEN resource_chunk
              ELSE CHOOSE q \in
                    {IF content.kind # "Ok" THEN content
                     ELSE [kind |-> "Ok",
                           string_chunk |-> string_chunk.string_chunk,
                           resource_chunk |-> resource_chunk.resource_chunk,
                           content |-> content.content] :
                     content \in {XmlContent_parse(d, string_chunk.string_chunk,
                                                   resource_chunk.off)}} : TRUE :
         string_chunk \in {StringChunk_parse(d, 8)}} : TRUE

(* Mutant: the string chunk is built from the builder as it was before the *)
(* content was written.                                                    *)
AndroidXml_regenerate_stale_pool(d, x, b) ==
    CHOOSE r \in
        {CHOOSE q \in
            {[bytes |-> push_le32(XML_MAGIC)
                        \o push_leu32(4 * 2 + Len(string_chunk_data)
                                      + x.resource_chunk.chunk_size
                                      + Len(content_data.bytes))
                        \o string_chunk_data
                        \o Slice(d, x.resource_chunk.chunk_offset,
                                 x.resource_chunk.chunk_offset
                                 + x.resource_chunk.chunk_size)
                        \o content_data.bytes,
              builder |-> content_data.builder] :
             string_chunk_data \in {build(b)}} : TRUE :
         content_data \in {to_data(x.content, b)}} : TRUE

(* AndroidXml::regenerate: the bytes returned and the builder after it. *)
AndroidXml_regenerate(d, x, b) ==
    CHOOSE r \in
        {CHOOSE q \in
            {[bytes |-> push_le32(XML_MAGIC)
                        \o push_leu32(4 * 2 + Len(string_chunk_data)
                                      + x.resource_chunk.chunk_size
                                      + Len(content_data.bytes))
                        \o string_chunk_data
                        \o Slice(d, x.resource_chunk.chunk_offset,
                                 x.resource_chunk.chunk_offset
                                 + x.resource_chunk.chunk_size)
                        \o content_data.bytes,
              builder |-> content_data.builder] :
             string_chunk_data \in {build(content_data.builder)}} : TRUE :
         content_data \in {to_data(x.content, b)}} : TRUE

(***************************************************************************)
(* manifest/manifest_editor.rs.                                            *)
(***************************************************************************)
(* AndroidManifest::from: the index of the first child of the root tagged  *)
(* "application", 0 when there is none.                                    *)
RECURSIVE find_application(_, _)
find_application(children, i) ==
    IF i > Len(children) THEN 0
    ELSE IF children[i].tag_name = StrApplication THEN i - 1
    ELSE find_application(children, i + 1)

AndroidManifest_from(d) ==
    CHOOSE r \in
        {IF x.kind # "Ok"
         THEN [xml |-> x, string_chunk_builder |-> StringChunkBuilder_new,
               application_node_index |-> 0]
         ELSE CHOOSE q \in
                {IF seeded.kind # "Ok"
                 THEN [xml |-> Panic, string_chunk_builder |-> StringChunkBuilder_new,
                       application_node_index |-> 0]
                 ELSE [xml |-> x, string_chunk_builder |-> seeded.builder,
                       application_node_index |->
                           find_application(x.content.root_node.children, 1)] :
                 seeded \in {init(StringChunkBuilder_new, d, x.string_chunk)}} : TRUE :
         x \in {AndroidXml_from_data(d)}} : TRUE

(* root_node.children[application_node_index].children.push(node) *)
push_application_child(x, index, node) ==
    [x EXCEPT !.content.root_node.children[index + 1].children = Append(@, node)]

(* AndroidManifest::add_activity: the tree and the builder after it. *)
AndroidManifest_add_activity(x, b, index, class_name) ==
    CHOOSE r \in {
    [xml |-> push_application_child(x, index,
                [tag_name |-> StrActivity,
                 attrs |-> <<[namespace_uri |-> Some(StrAndroidUri), name_index |-> 3,
                              name |-> StrName, value_type |-> AttrTypeString,
                              string_data |-> Some(class_name), data |-> p.ret]>>,
                 children |-> <<>>]),
     builder |-> p.builder] : p \in {put(b, class_name)}} : TRUE

(* AndroidManifest::add_content_provider: the tree and the builder after   *)
(* it.                                                                     *)
AndroidManifest_add_content_provider(x, b, index, class_name, authorities) ==
    CHOOSE r \in {
        [xml |-> push_application_child(x, index,
                    [tag_name |-> StrProvider,
                     attrs |-> <<[namespace_uri |-> Some(StrAndroidUri), name_index |-> 3,
                                  name |-> StrName, value_type |-> AttrTypeString,
                                  string_data |-> Some(class_name), data |-> p.ret],
                                 [namespace_uri |-> Some(StrAndroidUri), name_index |-> 5,
                                  name |-> StrAuthorities, value_type |-> AttrTypeString,
                                  string_data |-> Some(authorities), data |-> q.ret]>>,
                     children |-> <<>>]),
         builder |-> q.builder] :
        p \in {put(b, class_name)},
        q \in {put(put(b, class_name).builder, authorities)}} : TRUE

(***************************************************************************)
(* Source manifests: AXML buffers laid out as from_data reads them.  The   *)
(* length prefix of a pool string is its number of UTF-16 units.           *)
(***************************************************************************)
RECURSIVE PoolStrings(_, _, _)
PoolStrings(strings, lo, hi) ==
    IF lo > hi THEN <<>>
    ELSE IF lo = hi
    THEN write_u16(Len(encode_utf16(strings[lo]))) \o UnitBytes(encode_utf16(strings[lo]))
         \o <<0, 0>>
    ELSE PoolStrings(strings, lo, (lo + hi) \div 2)
         \o PoolStrings(strings, ((lo + hi) \div 2) + 1, hi)

PoolChunk(pool) ==
    CHOOSE r \in
        {LET body == Words(<<Len(strings), 0, 0, 28 + 4 * Len(strings), 0>>)
                     \o Words([i \in 1..Len(strings) |-> current_str_offset(sizes, i)])
                     \o bytes
             padding == Zeros((4 - ((8 + Len(bytes)) % 4)) % 4)
         IN  push_le32(STRING_CHUNK)
             \o push_leu32(8 + 20 + 4 * Len(strings) + Len(bytes) + Len(padding))
             \o body \o padding :
         strings \in {pool},
         bytes \in {PoolStrings(pool, 1, Len(pool))},
         sizes \in {[i \in 1..Len(pool) |-> 4 + 2 * Len(encode_utf16(pool[i]))]}} : TRUE

ResourceMap(ids) == push_le32(RESOURCE_CHUNK) \o push_leu32(8 + 4 * Len(ids)) \o Words(ids)

NamespaceChunk(type, prefix, uri) == Words(<<type, 24, 1, NoIndex, prefix, uri>>)

AttrWords(ns, name, raw, type, value) == Words(<<ns, name, raw, type, value>>)

StartTag(name, count, attrs) ==
    Words(<<START_TAG, 36 + 20 * count, 1, NoIndex, NoIndex, name, TagFlag, count, 0>>)
    \o attrs

EndTag(name) == Words(<<END_TAG, 24, 1, NoIndex, NoIndex, name>>)

MakeAxml(magic, strings, ids, content) ==
    LET rest == PoolChunk(strings) \o ResourceMap(ids) \o content IN
    push_le32(magic) \o push_leu32(8 + Len(rest)) \o rest

StrP == <<112>>
StrQ == <<113>>
StrV == <<86>>
StrEAcute == <<233>>

(* Indices 3 and 5 hold "name" and "authorities", 6 and 7 the namespace's  *)
(* prefix and uri, 8 the root's tag, 9 "application", 10 a value, 11 the   *)
(* tag of another element.                                                 *)
SourcePool == <<StrP, StrQ, <<114>>, StrName, <<115>>, StrAuthorities, StrA, StrAndroidUri,
                <<109>>, StrApplication, StrV, <<117>>>>

ApplicationElement ==
    StartTag(9, 1, AttrWords(7, 3, 10, AttrTypeString, 10)) \o EndTag(9)

UsesElement == StartTag(11, 0, <<>>) \o EndTag(11)

Document(children) ==
    NamespaceChunk(START_NAMESPACE, 6, 7)
    \o StartTag(8, 0, <<>>) \o children \o EndTag(8)
    \o NamespaceChunk(END_NAMESPACE, 6, 7)

SourceManifests == <<
    \* 1: manifest > application
    MakeAxml(XML_MAGIC, SourcePool, <<1, 2>>, Document(ApplicationElement)),
    \* 2: the same, the pool holding "q" at indices 1 and 2
    MakeAxml(XML_MAGIC, [SourcePool EXCEPT ![3] = StrQ], <<1, 2>>,
             Document(ApplicationElement)),
    \* 3: application is the second child of the root
    MakeAxml(XML_MAGIC, SourcePool, <<1, 2>>,
             Document(UsesElement \o ApplicationElement)),
    \* 4: the root has no application child
    MakeAxml(XML_MAGIC, SourcePool, <<1, 2>>, Document(UsesElement)),
    \* 5: a string value outside ASCII
    MakeAxml(XML_MAGIC, [SourcePool EXCEPT ![11] = StrEAcute], <<1, 2>>,
             Document(ApplicationElement)),
    \* 6: the root has no children
    MakeAxml(XML_MAGIC, SourcePool, <<1, 2>>, Document(<<>>)),
    \* 7: not an AXML file
    MakeAxml(XML_MAGIC + 1, SourcePool, <<1, 2>>, Document(ApplicationElement)),
    \* 8: an END_TAG named "u" inside the open application element
    MakeAxml(XML_MAGIC, SourcePool, <<1, 2>>,
             Document(StartTag(9, 0, <<>>) \o EndTag(11) \o EndTag(9))),
    \* 9: the input ends inside the root element
    MakeAxml(XML_MAGIC, SourcePool, <<1, 2>>,
             NamespaceChunk(START_NAMESPACE, 6, 7) \o StartTag(8, 0, <<>>)
             \o ApplicationElement),
    \* 10: the pool holds "s" at index 3 and "name" at index 4
    MakeAxml(XML_MAGIC, [SourcePool EXCEPT ![4] = <<115>>, ![5] = StrName], <<1, 2>>,
             Document(ApplicationElement))
>>

(***************************************************************************)
(* The AndroidManifest of one source manifest: add_activity,               *)
(* add_content_provider and get_data in any order.                         *)
(***************************************************************************)
MaxAdds == 2

ClassNames == {StrV, StrName}
AuthorityNames == {StrQ}

MCall(op, arg, ret, out) == [op |-> op, arg |-> arg, ret |-> ret, out |-> out]

NoArchive ==
    /\ data = <<>>
    /\ zip = [kind |-> "Absent"]
    /\ editable_entries = <<>>
    /\ append_entries = <<>>
    /\ dex_count = 0
    /\ dex_names = <<>>
    /\ last = Call("none", <<>>, 0, "Unit", <<>>)

InitAxml ==
    /\ NoArchive
    /\ \E i \in 1..Len(SourceManifests) :
        /\ mdata = SourceManifests[i]
        /\ \E m \in {AndroidManifest_from(SourceManifests[i])} :
            /\ xml = m.xml
            /\ string_chunk_builder = m.string_chunk_builder
            /\ application_node_index = m.application_node_index
    /\ mlast = MCall("from", <<>>, xml.kind, <<>>)
    /\ mprev = MCall("none", <<>>, "Unit", <<>>)
    /\ put_calls = <<>>

LiveManifest == xml.kind = "Ok" /\ mlast.ret # "Panic"

RECURSIVE CountNodes(_)
RECURSIVE CountAll(_, _)
CountAll(children, i) ==
    IF i > Len(children) THEN 0 ELSE CountNodes(children[i]) + CountAll(children, i + 1)

CountNodes(node) == 1 + CountAll(node.children, 1)

(* The number of nodes added since AndroidManifest::from. *)
Added ==
    CountNodes(xml.content.root_node)
    - CountNodes(AndroidXml_from_data(mdata).content.root_node)

CanIndexApplication == application_node_index < Len(xml.content.root_node.children)

add_activity(class_name) ==
    /\ LiveManifest
    /\ Added < MaxAdds
    /\ IF CanIndexApplication
       THEN \E r \in {AndroidManifest_add_activity(xml, string_chunk_builder,
                                                    application_node_index, class_name)} :
            /\ xml' = r.xml
            /\ string_chunk_builder' = r.builder
            /\ mlast' = MCall("add_activity", <<class_name>>, "Unit", <<>>)
       ELSE /\ mlast' = MCall("add_activity", <<class_name>>, "Panic", <<>>)
            /\ UNCHANGED <<xml, string_chunk_builder>>
    /\ mprev' = mlast
    /\ UNCHANGED <<zipVars, mdata, application_node_index, put_calls>>

add_content_provider(class_name, authorities) ==
    /\ LiveManifest
    /\ Added < MaxAdds
    /\ IF CanIndexApplication
       THEN \E r \in {AndroidManifest_add_content_provider(xml, string_chunk_builder,
                          application_node_index, class_name, authorities)} :
            /\ xml' = r.xml
            /\ string_chunk_builder' = r.builder
            /\ mlast' = MCall("add_content_provider", <<class_name, authorities>>, "Unit", <<>>)
       ELSE /\ mlast' = MCall("add_content_provider", <<class_name, authorities>>, "Panic", <<>>)
            /\ UNCHANGED <<xml, string_chunk_builder>>
    /\ mprev' = mlast
    /\ UNCHANGED <<zipVars, mdata, application_node_index, put_calls>>

get_data ==
    /\ LiveManifest
    /\ \E r \in {AndroidXml_regenerate(mdata, xml, string_chunk_builder)} :
        /\ string_chunk_builder' = r.builder
        /\ mlast' = MCall("get_data", <<>>, "Ok", r.bytes)
    /\ mprev' = mlast
    /\ UNCHANGED <<zipVars, mdata, xml, application_node_index, put_calls>>

NextAxml ==
    \/ \E class_name \in ClassNames : add_activity(class_name)
    \/ \E class_name \in ClassNames, authorities \in AuthorityNames :
        add_content_provider(class_name, authorities)
    \/ get_data

SpecAxml == InitAxml /\ [][NextAxml]_vars

(***************************************************************************)
(* A StringChunkBuilder on its own: put in any order on a new builder.     *)
(* put_calls records each call: the string, the index returned and the     *)
(* builder before the call.                                                *)
(***************************************************************************)
MaxPuts == 4

PutValues == {StrP, StrQ, StrName, StrEAcute}

InitPut ==
    /\ NoArchive
    /\ mdata = <<>>
    /\ xml = [kind |-> "Absent"]
    /\ string_chunk_builder = StringChunkBuilder_new
    /\ application_node_index = 0
    /\ mlast = MCall("new", <<>>, "Unit", <<>>)
    /\ mprev = MCall("none", <<>>, "Unit", <<>>)
    /\ put_calls = <<>>

StringChunkBuilder_put(value) ==
    /\ Len(put_calls) < MaxPuts
    /\ \E r \in {put(string_chunk_builder, value)} :
        /\ string_chunk_builder' = r.builder
        /\ mlast' = MCall("put", <<value>>, r.ret, <<>>)
        /\ put_calls' = Append(put_calls, [value |-> value, ret |-> r.ret,
                                           before |-> string_chunk_builder])
    /\ mprev' = mlast
    /\ UNCHANGED <<zipVars, mdata, xml, application_node_index>>

StringChunkBuilder_build ==
    /\ \E bytes \in {build(string_chunk_builder)} :
        mlast' = MCall("build", <<>>, "Ok", bytes)
    /\ mprev' = mlast
    /\ UNCHANGED <<zipVars, mdata, xml, string_chunk_builder, application_node_index,
                   put_calls>>

NextPut ==
    \/ \E value \in PutValues : StringChunkBuilder_put(value)
    \/ StringChunkBuilder_build

SpecPut == InitPut /\ [][NextPut]_vars

(***************************************************************************)
(* Reading the plan and the written archive, for the properties below.     *)
(***************************************************************************)
NotRemoved(e) == ~e.remove
Survivors == SelectSeq(editable_entries, NotRemoved)
Written == last.op \in {"save", "finish"} /\ last.ret = "Ok"
OutZip == ZipFile_from(last.out)
OutHeader(o, k) == LocalFileHeader_from_slice(last.out, o.entries[k].local_file_header_offset)
NoEdits ==
    /\ append_entries = <<>>
    /\ \A i \in 1..Len(editable_entries) :
        ~editable_entries[i].remove /\ ~editable_entries[i].edit.some

(* The uncompressed bytes of entry idx (from 0) of archive z, as           *)
(* get_uncompress_data finds them.                                         *)
UncompressedAt(z, idx) ==
    LET raw == get_file_compress_data(z, idx) IN
    IF "some" \notin DOMAIN raw THEN raw
    ELSE IF ~raw.some THEN None
    ELSE IF z.entries[idx + 1].compress_method = "Stored" THEN Some(raw.v)
    ELSE Some(DeflateDecoder(raw.v))

(* The local extra length an emitted entry starts from: the source's local *)
(* extra for a source entry, nothing for an appended one.                  *)
SourceExtLen(k) ==
    IF k <= Len(Survivors)
    THEN get_leu16_value(data, Survivors[k].origin_entry.local_file_header_offset + 28)
    ELSE 0

(* The central-directory records from offset off up to offset end, counted *)
(* by their magic and lengths; -1 when they do not end at end.             *)
RECURSIVE CountRecords(_, _, _)
CountRecords(d, off, end) ==
    IF off = end THEN 0
    ELSE IF off + 46 > end \/ get_leu32_value(d, off) # CENTRAL_DIRECTORY THEN -1
    ELSE LET rest == CountRecords(d, off + 46 + get_leu16_value(d, off + 28)
                                        + get_leu16_value(d, off + 30)
                                        + get_leu16_value(d, off + 32), end)
         IN  IF rest < 0 THEN -1 ELSE rest + 1

(***************************************************************************)
(* C1.  Saving with no append, edit or remove writes an archive that       *)
(* parses again and holds, for every source entry and in the same order,   *)
(* an entry with the same name, the same CRC32 field and the same          *)
(* uncompressed bytes.  Archive 5 refutes it: its first entry is copied    *)
(* with the central record's compressed size in the header and the local   *)
(* header's count of payload bytes (see C26).                              *)
(***************************************************************************)
C1_SaveRoundTrip ==
    (last.op = "save" /\ NoEdits) =>
        /\ last.ret = "Ok"
        /\ OutZip.kind = "Ok"
        /\ Len(OutZip.entries) = Len(zip.entries)
        /\ \A i \in 1..Len(zip.entries) :
            /\ OutZip.entries[i].file_name = zip.entries[i].file_name
            /\ OutZip.entries[i].crc_32 = zip.entries[i].crc_32
            /\ UncompressedAt(OutZip, i - 1) = UncompressedAt(zip, i - 1)

(***************************************************************************)
(* C2.  After finish(align), every emitted entry whose method is Stored    *)
(* has its data start (local header offset + 30 + name length + emitted    *)
(* extra length) at a multiple of align, and the padding added to its      *)
(* extra field is fewer than align bytes, all of them zero.                *)
(***************************************************************************)
C2_StoredAligned ==
    Written =>
        /\ OutZip.kind = "Ok"
        /\ Len(OutZip.entries) = Len(Survivors) + Len(append_entries)
        /\ \A k \in 1..Len(OutZip.entries) :
            LET h == OutHeader(OutZip, k) IN
            /\ h.kind = "Ok"
            /\ h.compress_method = "Stored" =>
                /\ (h.global_offset + 30 + h.file_name_len + h.ext_len) % last.align = 0
                /\ h.ext_len - SourceExtLen(k) >= 0
                /\ h.ext_len - SourceExtLen(k) < last.align
                /\ \A j \in (SourceExtLen(k) + 1)..h.ext_len : h.ext_data[j] = 0

C2_Witness ==
    /\ Written
    /\ \E k \in 1..Len(OutZip.entries) :
        /\ OutHeader(OutZip, k).compress_method = "Stored"
        /\ OutHeader(OutZip, k).ext_len > SourceExtLen(k)
        /\ k > 1

(***************************************************************************)
(* C3.  After finish, both entry-count fields of the end record equal the  *)
(* number of central-directory records written, which is the number of     *)
(* source entries not removed plus the appended entries; the CD-offset     *)
(* field is the offset of the first central-directory record, which is the *)
(* number of bytes written before it.                                      *)
(***************************************************************************)
C3_EndRecordCounts ==
    Written =>
        LET end == Len(last.out) - 22
            cd_size == get_leu32_value(last.out, end + 12)
            cd_offset == get_leu32_value(last.out, end + 16)
        IN  /\ end >= 0
            /\ get_leu32_value(last.out, end) = CENTRAL_DIRECTORY_END
            /\ get_leu16_value(last.out, end + 8) = Len(Survivors) + Len(append_entries)
            /\ get_leu16_value(last.out, end + 10) = Len(Survivors) + Len(append_entries)
            /\ cd_offset >= 0 /\ cd_offset + cd_size = end
            /\ CountRecords(last.out, cd_offset, end) = Len(Survivors) + Len(append_entries)

C3_Witness ==
    /\ Written
    /\ Len(append_entries) > 0
    /\ Len(Survivors) > 0
    /\ Len(Survivors) < Len(editable_entries)

(***************************************************************************)
(* C4.  For every appended entry, Stored or Deflated, the CRC32 field of   *)
(* its local header and of its central-directory record both equal the     *)
(* CRC32 of the payload given to append_file, and both uncompressed-size   *)
(* fields equal the payload's length.                                      *)
(***************************************************************************)
C4_AppendedCrc ==
    Written =>
        /\ OutZip.kind = "Ok"
        /\ Len(OutZip.entries) = Len(Survivors) + Len(append_entries)
        /\ \A j \in 1..Len(append_entries) :
            LET k == Len(Survivors) + j
                h == OutHeader(OutZip, k)
            IN  /\ h.kind = "Ok"
                /\ OutZip.entries[k].crc_32 = crc32(append_entries[j].data)
                /\ h.crc_32 = crc32(append_entries[j].data)
                /\ OutZip.entries[k].origin_size = Len(append_entries[j].data)
                /\ h.origin_size = Len(append_entries[j].data)

C4_Witness ==
    /\ Written
    /\ \E j \in 1..Len(append_entries) :
        /\ append_entries[j].compress_method = "Deflated"
        /\ append_entries[j].data # <<>>
        /\ OutZip.entries[Len(Survivors) + j].crc_32 = crc32(append_entries[j].data)

(***************************************************************************)
(* C7.  remove_file and edit_file called with a name that is not in the    *)
(* source archive's name index return None and leave the plan as it was:   *)
(* no remove flag set, no replacement stored, no entry appended.           *)
(***************************************************************************)
C7_AbsentNameNoEffect ==
    [][(/\ last'.op \in {"edit_file", "remove_file"}
        /\ last'.name \notin DOMAIN zip.file_name_map)
       => /\ last'.ret = "None"
          /\ editable_entries' = editable_entries
          /\ append_entries' = append_entries
          /\ dex_count' = dex_count]_vars

C7_Witness ==
    /\ last.op \in {"edit_file", "remove_file"}
    /\ last.name \notin DOMAIN zip.file_name_map
    /\ last.ret = "None"
    /\ Len(editable_entries) > 0

(***************************************************************************)
(* C8.  Every add_dex call chooses a name that differs from the name of    *)
(* every entry of the source archive and from the names chosen by the      *)
(* earlier add_dex calls.  Archive 3 (classes.dex, classes2.dex) refutes   *)
(* it: two names are counted and the first add_dex chooses classes2.dex.   *)
(***************************************************************************)
C8_AddDexFreshName ==
    \A i \in 1..Len(dex_names) :
        /\ \A k \in 1..Len(zip.entries) : zip.entries[k].file_name # dex_names[i]
        /\ \A j \in 1..(i - 1) : dex_names[j] # dex_names[i]

(***************************************************************************)
(* C9.  ZipFile::from returns Err(ZipFormatError) when a central-directory *)
(* record carries a compression method other than 0 and 8.  Archive 7      *)
(* refutes it: convert_from_u16 returns None and the unwrap panics.        *)
(***************************************************************************)
RECURSIVE UnknownMethodIn(_, _, _)
UnknownMethodIn(d, off, remaining) ==
    /\ remaining > 0
    /\ InRange(d, off, 46)
    /\ get_leu32_value(d, off) = CENTRAL_DIRECTORY
    /\ InRange(d, off + 46, get_leu16_value(d, off + 28))
    /\ from_utf8_ok(Slice(d, off + 46, off + 46 + get_leu16_value(d, off + 28)))
    /\ \/ get_leu16_value(d, off + 10) \notin {0, 8}
       \/ UnknownMethodIn(d, off + 46 + get_leu16_value(d, off + 28)
                                 + get_leu16_value(d, off + 30)
                                 + get_leu16_value(d, off + 32), remaining - 1)

C9_UnknownMethodIsError ==
    LET end == ScanEnd(data, 0) IN
    (/\ end.kind = "Found"
     /\ UnknownMethodIn(data, get_leu32_value(data, end.offset + 16),
                        get_leu16_value(data, end.offset + 10)))
    => zip.kind = "Err"

(***************************************************************************)
(* C10.  ZipFile::from locates the end record for every comment length k   *)
(* from 0 to 65535: when the magic sits at offset len-22-k and at no       *)
(* offset nearer the end, the scan stops there, whatever the offset.       *)
(* Archives 8 and 9 refute it: an archive with no entries and a comment    *)
(* has its end record at offset 0, and the scan gives up below offset 4.   *)
(***************************************************************************)
MagicOffsets(d) ==
    {k \in 0..(Len(d) - 22) :
        k <= MaxSeekIndex /\ get_leu32_value(d, Len(d) - 22 - k) = CENTRAL_DIRECTORY_END}

C10_EndRecordLocated ==
    MagicOffsets(data) # {} =>
        LET k == CHOOSE m \in MagicOffsets(data) : \A n \in MagicOffsets(data) : m <= n
        IN  ScanEnd(data, 0) = [kind |-> "Found", offset |-> Len(data) - 22 - k]

(***************************************************************************)
(* Properties of the AXML codec.                                           *)
(***************************************************************************)
(* The element tree as the round trip compares it: tags, child order and,  *)
(* per attribute, namespace_uri, name, value_type, string value and data.  *)
RECURSIVE TreeOf(_)
TreeOf(node) ==
    [tag_name |-> node.tag_name,
     attrs |-> [i \in 1..Len(node.attrs) |->
                  [namespace_uri |-> node.attrs[i].namespace_uri,
                   name |-> node.attrs[i].name,
                   value_type |-> node.attrs[i].value_type,
                   string_data |-> node.attrs[i].string_data,
                   data |-> node.attrs[i].data]],
     children |-> [i \in 1..Len(node.children) |-> TreeOf(node.children[i])]]

Regenerated == LiveManifest /\ mlast.op = "get_data"
Untouched == xml = AndroidXml_from_data(mdata)

(* C5: regenerating an accepted manifest through a builder seeded from its *)
(* string pool, with no node added, and parsing the result gives the same  *)
(* element tree.                                                           *)
C5_RegenerateRoundTrip ==
    (Regenerated /\ Untouched) =>
        \A again \in {AndroidXml_from_data(mlast.out)} :
            /\ again.kind = "Ok"
            /\ TreeOf(again.content.root_node) = TreeOf(xml.content.root_node)

(* C6: every put of a string returns the index of the first put of that    *)
(* string; a put of a string already present leaves the builder unchanged; *)
(* a put of a new string returns the number of strings held and keeps the  *)
(* index of every other string.                                            *)
BuilderAfter(k) ==
    IF k = Len(put_calls) THEN string_chunk_builder ELSE put_calls[k + 1].before

C6_PutIdempotentStable ==
    /\ \A i, j \in 1..Len(put_calls) :
        put_calls[i].value = put_calls[j].value => put_calls[i].ret = put_calls[j].ret
    /\ \A k \in 1..Len(put_calls) :
        LET call == put_calls[k]
            before == call.before
            after == BuilderAfter(k)
        IN  IF \E i \in 1..Len(before.string_arr) : before.string_arr[i] = call.value
            THEN after = before /\ before.string_arr[call.ret + 1] = call.value
            ELSE /\ call.ret = Len(before.string_arr)
                 /\ after.string_arr = Append(before.string_arr, call.value)
                 /\ \A x \in DOMAIN before.string_index_map :
                     after.string_index_map[x] = before.string_index_map[x]
                 /\ after.string_index_map[call.value] = call.ret

C6_Witness ==
    \E i, j \in 1..Len(put_calls) :
        /\ i + 1 < j
        /\ put_calls[i].value = put_calls[j].value
        /\ put_calls[i + 1].value # put_calls[i].value
        /\ put_calls[j].ret = put_calls[i].ret
        /\ BuilderAfter(j) = put_calls[j].before
        /\ put_calls[i + 1].ret = Len(put_calls[i + 1].before.string_arr)

(***************************************************************************)
(* C11.  ZipFile::from returns an archive or a ZipFormatError for every    *)
(* buffer and never aborts on a read out of range (the unwrap of an        *)
(* unknown method, C9, set aside).  Archives 10, 11 and 12 refute it: a    *)
(* buffer shorter than 22 bytes, a central-directory offset past the end   *)
(* and a name length past the end each make a read panic.                  *)
(***************************************************************************)
C11_ParseTotal ==
    LET end == ScanEnd(data, 0) IN
    ~(/\ end.kind = "Found"
      /\ UnknownMethodIn(data, get_leu32_value(data, end.offset + 16),
                         get_leu16_value(data, end.offset + 10)))
    => zip.kind \in {"Ok", "Err"}

(***************************************************************************)
(* C12.  An END_TAG whose name differs from the name of the element open   *)
(* at that point, and an element still open where the input ends, make     *)
(* AndroidXml::from_data return FileFormatError.  Manifests 8 and 9 refute *)
(* it: the END_TAG with another name is skipped and the tree is returned,  *)
(* and the element open at the end of the input is returned as complete,   *)
(* after which the read of the namespace's end chunk panics.               *)
(***************************************************************************)
(* The tag chunks from offset on, read against the names of the elements   *)
(* open so far: whether an END_TAG names another element than the          *)
(* innermost open one, or the input ends with an element open.             *)
RECURSIVE IllNestedFrom(_, _, _, _)
IllNestedFrom(d, sc, offset, stack) ==
    CHOOSE r \in
        {IF off >= Len(d) THEN open # <<>>
         ELSE IF ~InRange(d, off, 24) THEN FALSE
         ELSE LET name == get_string(d, sc, get_leu32_value(d, off + 20)) IN
              IF name.kind # "Ok" THEN FALSE
              ELSE IF get_le32_value(d, off) = START_TAG
              THEN /\ InRange(d, off, 36)
                   /\ get_le32_value(d, off + 28) >= 0
                   /\ IllNestedFrom(d, sc, off + 36 + 20 * get_le32_value(d, off + 28),
                                    Append(open, name.s))
              ELSE IF get_le32_value(d, off) = END_TAG
              THEN \/ open = <<>>
                   \/ open[Len(open)] # name.s
                   \/ IllNestedFrom(d, sc, off + 24, SubSeq(open, 1, Len(open) - 1))
              ELSE FALSE :
         off \in {offset}, open \in {stack}} : TRUE

(* A buffer whose header, string pool, resource map and namespace start    *)
(* are accepted and whose tags are ill nested.                             *)
IllNested(d) ==
    /\ CanRead32(d, 4)
    /\ get_le32_value(d, 0) = XML_MAGIC
    /\ get_le32_value(d, 4) = Len(d)
    /\ \E string_chunk \in {StringChunk_parse(d, 8)} :
        /\ string_chunk.kind = "Ok"
        /\ \E resource_chunk \in {ResourceChunk_parse(d, string_chunk.off)} :
            /\ resource_chunk.kind = "Ok"
            /\ \E namespace \in {XmlNameSpace_parse(d, string_chunk.string_chunk,
                                                     resource_chunk.off)} :
                /\ namespace.kind = "Ok"
                /\ IllNestedFrom(d, string_chunk.string_chunk, namespace.off, <<>>)

C12_MismatchedEndIsError == IllNested(mdata) => xml.kind = "Err"

(***************************************************************************)
(* C13.  After add_content_provider(class_name, authorities) and get_data, *)
(* the regenerated bytes parse to a tree whose application element has a   *)
(* last child tagged "provider" with exactly two attributes, named "name"  *)
(* and "authorities", whose string values are class_name and authorities.  *)
(* Manifest 10 refutes it: the attributes carry the name indices 3 and 5,  *)
(* and its pool holds "s" at index 3.                                      *)
(***************************************************************************)
(* The element add_activity and add_content_provider push to, and its last *)
(* child.                                                                  *)
ApplicationOf(x) == x.content.root_node.children[application_node_index + 1]
LastChild(node) == node.children[Len(node.children)]

(* get_data has just returned and the last child of the application        *)
(* element is a provider that add_content_provider(class_name,             *)
(* authorities) pushed.                                                    *)
ProviderRegenerated(class_name, authorities) ==
    /\ Regenerated
    /\ CanIndexApplication
    /\ ApplicationOf(xml).tag_name = StrApplication
    /\ ApplicationOf(xml).children # <<>>
    /\ LastChild(ApplicationOf(xml)).tag_name = StrProvider
    /\ LastChild(ApplicationOf(xml)).attrs[1].string_data = Some(class_name)
    /\ LastChild(ApplicationOf(xml)).attrs[2].string_data = Some(authorities)

C13_ProviderReparsed ==
    \A class_name \in ClassNames, authorities \in AuthorityNames :
        ProviderRegenerated(class_name, authorities) =>
            \A again \in {AndroidXml_from_data(mlast.out)} :
                /\ again.kind = "Ok"
                /\ application_node_index < Len(again.content.root_node.children)
                /\ ApplicationOf(again).tag_name = StrApplication
                /\ Len(ApplicationOf(again).children) = Len(ApplicationOf(xml).children)
                /\ LET provider == LastChild(ApplicationOf(again)) IN
                    /\ provider.tag_name = StrProvider
                    /\ Len(provider.attrs) = 2
                    /\ provider.attrs[1].name = StrName
                    /\ provider.attrs[2].name = StrAuthorities
                    /\ provider.attrs[1].string_data = Some(class_name)
                    /\ provider.attrs[2].string_data = Some(authorities)

(***************************************************************************)
(* C14.  A call of add_activity or add_content_provider that returns       *)
(* pushes its node as the last child of the first child of the root tagged *)
(* "application" and changes nothing else of the tree.  Manifest 4 refutes *)
(* it: its root has no "application" child, application_node_index stays 0 *)
(* and the node is pushed to the root's first child, tagged "u".           *)
(***************************************************************************)
C14_AppendsToApplication ==
    [][(mlast'.op \in {"add_activity", "add_content_provider"} /\ mlast'.ret = "Unit")
       => \E i \in 1..Len(xml.content.root_node.children) :
            /\ xml.content.root_node.children[i].tag_name = StrApplication
            /\ \A j \in 1..(i - 1) :
                xml.content.root_node.children[j].tag_name # StrApplication
            /\ Len(xml'.content.root_node.children[i].children)
                 = Len(xml.content.root_node.children[i].children) + 1
            /\ xml' = [xml EXCEPT !.content.root_node.children[i].children =
                          Append(@, LastChild(xml'.content.root_node.children[i]))]
            /\ LastChild(xml'.content.root_node.children[i]).tag_name
                 = (IF mlast'.op = "add_activity" THEN StrActivity ELSE StrProvider)]_vars

(***************************************************************************)
(* C15.  After edit_file(n, b) or set_manifest(b) on a source entry and a  *)
(* save, the output parses, get_uncompress_data(n) on it is b, whichever   *)
(* method the source entry is stored with, and the entry is at the         *)
(* position among the emitted entries that it has among the surviving      *)
(* source entries.                                                         *)
(***************************************************************************)
(* The position, from 1, of plan entry i among the emitted entries. *)
EmittedIndex(i) == Cardinality({j \in 1..i : ~editable_entries[j].remove})

Edited(i) == editable_entries[i].edit.some /\ ~editable_entries[i].remove

C15_EditReadBack ==
    last.op \in {"save", "finish"} =>
        \A i \in 1..Len(editable_entries) :
            Edited(i) =>
                /\ last.ret = "Ok"
                /\ OutZip.kind = "Ok"
                /\ EmittedIndex(i) <= Len(OutZip.entries)
                /\ OutZip.entries[EmittedIndex(i)].file_name
                     = editable_entries[i].origin_entry.file_name
                /\ UncompressedAt(OutZip, EmittedIndex(i) - 1)
                     = Some(editable_entries[i].edit.v)
                /\ get_uncompress_data(OutZip, editable_entries[i].origin_entry.file_name)
                     = Some(editable_entries[i].edit.v)

C15_Witness ==
    /\ last.op = "save"
    /\ last.ret = "Ok"
    /\ \E i, j \in 1..Len(editable_entries) :
        /\ Edited(i)
        /\ editable_entries[i].origin_entry.compress_method = "Deflated"
        /\ editable_entries[i].edit.v # <<>>
        /\ get_uncompress_data(OutZip, StrManifest) = Some(editable_entries[i].edit.v)
        /\ Edited(j)
        /\ editable_entries[j].origin_entry.compress_method = "Stored"
        /\ Len(editable_entries[j].edit.v) # editable_entries[j].origin_entry.origin_size

(***************************************************************************)
(* C16.  For an edited entry whose source method is Stored, finish writes  *)
(* the length of the new payload in the compressed-size and in the         *)
(* uncompressed-size field, of the local header and of the central         *)
(* record.  Refuted by an edit of a Stored entry with a payload of another *)
(* length: only the compressed size is set, the uncompressed size stays    *)
(* the source's.                                                           *)
(***************************************************************************)
C16_StoredEditSizes ==
    Written =>
        \A i \in 1..Len(editable_entries) :
            (Edited(i) /\ editable_entries[i].origin_entry.compress_method = "Stored") =>
                /\ OutZip.kind = "Ok"
                /\ OutHeader(OutZip, EmittedIndex(i)).kind = "Ok"
                /\ OutHeader(OutZip, EmittedIndex(i)).compressed_size
                     = Len(editable_entries[i].edit.v)
                /\ OutHeader(OutZip, EmittedIndex(i)).origin_size
                     = Len(editable_entries[i].edit.v)
                /\ OutZip.entries[EmittedIndex(i)].compressed_size
                     = Len(editable_entries[i].edit.v)
                /\ OutZip.entries[EmittedIndex(i)].origin_size
                     = Len(editable_entries[i].edit.v)

(***************************************************************************)
(* C17.  In the output of finish the local extra field of a copied source  *)
(* entry is the source's local extra bytes followed by padding only, and   *)
(* the local extra field of an edited or appended entry is padding only.   *)
(* Refuted by an edit of archive 6's entry: the builder of an edited entry *)
(* keeps the extra bytes taken from the source, which are written before   *)
(* the padding.                                                            *)
(***************************************************************************)
(* The source's local extra bytes of the k-th surviving entry. *)
SourceExt(k) ==
    LocalFileHeader_from_slice(data, Survivors[k].origin_entry.local_file_header_offset).ext_data

Copied(k) == k <= Len(Survivors) /\ ~Survivors[k].edit.some

C17_ExtraField ==
    Written =>
        /\ OutZip.kind = "Ok"
        /\ Len(OutZip.entries) = Len(Survivors) + Len(append_entries)
        /\ \A k \in 1..Len(OutZip.entries) :
            LET h == OutHeader(OutZip, k) IN
            /\ h.kind = "Ok"
            /\ IF Copied(k)
               THEN /\ h.ext_len >= Len(SourceExt(k))
                    /\ h.ext_data = SourceExt(k) \o Zeros(h.ext_len - Len(SourceExt(k)))
               ELSE h.ext_data = Zeros(h.ext_len)

(***************************************************************************)
(* C18.  finish emits the surviving source entries in the source's         *)
(* central-directory order, then the appended entries in the order of      *)
(* their append_file calls; the central directory has one record per       *)
(* emitted entry, in the same order, and record k holds the offset of the  *)
(* local header of emitted entry k: the offsets start at 0 and increase,   *)
(* each behind the header before it, and at each of them stands a local    *)
(* header with the name of entry k, followed by its payload.               *)
(***************************************************************************)
(* What the plan says of the k-th emitted entry. *)
PlannedName(k) ==
    IF k <= Len(Survivors) THEN Survivors[k].origin_entry.file_name
    ELSE append_entries[k - Len(Survivors)].file_name

PlannedPayload(k) ==
    IF k <= Len(Survivors) THEN Survivors[k].edit
    ELSE Some(append_entries[k - Len(Survivors)].data)

C18_EmitOrder ==
    Written =>
        /\ OutZip.kind = "Ok"
        /\ Len(OutZip.entries) = Len(Survivors) + Len(append_entries)
        /\ \A k \in 1..Len(OutZip.entries) :
            LET h == OutHeader(OutZip, k)
                e == OutZip.entries[k]
            IN  /\ h.kind = "Ok"
                /\ get_leu32_value(last.out, e.local_file_header_offset) = LOCAL_FILE_HEADER
                /\ e.file_name = PlannedName(k)
                /\ h.file_name = PlannedName(k)
                /\ IF k = 1 THEN e.local_file_header_offset = 0
                   ELSE e.local_file_header_offset
                          >= get_data_offset(OutHeader(OutZip, k - 1))
                /\ get_data_offset(h) <= OutZip.central_directory_offset
                /\ IF Copied(k) THEN e.crc_32 = Survivors[k].origin_entry.crc_32
                   ELSE UncompressedAt(OutZip, k - 1) = PlannedPayload(k)

C18_Witness ==
    /\ Written
    /\ Len(Survivors) = 2
    /\ Survivors[1].origin_entry.crc_32 # Survivors[2].origin_entry.crc_32
    /\ Len(append_entries) = 2
    /\ append_entries[1].file_name # append_entries[2].file_name
    /\ OutZip.entries[3].file_name = append_entries[1].file_name
    /\ OutZip.entries[4].local_file_header_offset > OutZip.entries[3].local_file_header_offset

(***************************************************************************)
(* C19.  When several central-directory records of the source carry one    *)
(* name, the name resolves to the record latest in central-directory       *)
(* order: get_file and get_uncompress_data return that record and its      *)
(* bytes, edit_file and remove_file mark that entry of the plan and no     *)
(* other, and finish emits the earlier entries with that name unchanged.   *)
(***************************************************************************)
(* The index, from 1, of the record latest in the source with a name. *)
LatestWith(name) ==
    CHOOSE i \in 1..Len(zip.entries) :
        /\ zip.entries[i].file_name = name
        /\ \A j \in (i + 1)..Len(zip.entries) : zip.entries[j].file_name # name

Shadowed(i) ==
    \E j \in (i + 1)..Len(editable_entries) :
        editable_entries[j].origin_entry.file_name = editable_entries[i].origin_entry.file_name

C19_LastWins ==
    zip.kind = "Ok" =>
        /\ \A i \in 1..Len(zip.entries) :
            LET name == zip.entries[i].file_name IN
            /\ get_file_index(zip, name) = Some(LatestWith(name) - 1)
            /\ get_file(zip, name) = Some(zip.entries[LatestWith(name)])
            /\ get_uncompress_data(zip, name) = UncompressedAt(zip, LatestWith(name) - 1)
        /\ \A i \in 1..Len(editable_entries) :
            Shadowed(i) => ~editable_entries[i].remove /\ ~editable_entries[i].edit.some
        /\ Written =>
            \A i \in 1..Len(editable_entries) :
                Shadowed(i) =>
                    /\ OutZip.kind = "Ok"
                    /\ EmittedIndex(i) <= Len(OutZip.entries)
                    /\ OutZip.entries[EmittedIndex(i)].file_name = zip.entries[i].file_name
                    /\ OutZip.entries[EmittedIndex(i)].crc_32 = zip.entries[i].crc_32
                    /\ OutZip.entries[EmittedIndex(i)].compress_method
                         = zip.entries[i].compress_method
                    /\ UncompressedAt(OutZip, EmittedIndex(i) - 1) = UncompressedAt(zip, i - 1)

C19_Witness ==
    /\ Written
    /\ \E i, j \in 1..Len(editable_entries) :
        /\ i < j
        /\ zip.entries[i].file_name = zip.entries[j].file_name
        /\ editable_entries[j].edit.some
        /\ ~editable_entries[j].remove
        /\ get_uncompress_data(zip, zip.entries[i].file_name) = UncompressedAt(zip, j - 1)
        /\ UncompressedAt(zip, j - 1) # UncompressedAt(zip, i - 1)
        /\ UncompressedAt(OutZip, i - 1) = UncompressedAt(zip, i - 1)
        /\ UncompressedAt(OutZip, j - 1) = editable_entries[j].edit

(***************************************************************************)
(* C20.  Two consecutive get_data calls with no add between them return    *)
(* the same bytes, and the bytes of both parse to the same element tree,   *)
(* whatever add_activity, add_content_provider and get_data calls came     *)
(* before and although the first of the two calls may put new strings      *)
(* into the builder.                                                       *)
(***************************************************************************)
RegeneratedTwice == Regenerated /\ mprev.op = "get_data"

C20_NoDrift ==
    RegeneratedTwice =>
        /\ mlast.out = mprev.out
        /\ \A first \in {AndroidXml_from_data(mprev.out)},
              second \in {AndroidXml_from_data(mlast.out)} :
            /\ first.kind = "Ok"
            /\ second.kind = "Ok"
            /\ TreeOf(first.content.root_node) = TreeOf(second.content.root_node)

(* The second of two get_data calls, after a provider was added whose tag  *)
(* and strings the source pool does not hold.                              *)
C20_Witness ==
    /\ RegeneratedTwice
    /\ Added > 0
    /\ StrProvider \in DOMAIN string_chunk_builder.string_index_map
    /\ \A i \in 1..xml.string_chunk.string_count :
        get_string(mdata, xml.string_chunk, i - 1).s # StrProvider
    /\ mlast.out = mprev.out

(***************************************************************************)
(* C21.  In the bytes build returns, index-table entry i is the offset,    *)
(* from the start of the string data, at which the length prefix of string *)
(* i is written, and that prefix is the number of UTF-16 units written for *)
(* string i before its terminator.  Refuted by a builder holding a string  *)
(* outside ASCII: the prefix and the table's step are taken from the       *)
(* string's UTF-8 length.                                                  *)
(***************************************************************************)
(* The bytes written for the strings before string i: per string a prefix  *)
(* of two bytes, its UTF-16 units and a terminator of two bytes.           *)
RECURSIVE WrittenBefore(_, _)
WrittenBefore(arr, i) ==
    IF i <= 1 THEN 0
    ELSE WrittenBefore(arr, i - 1) + 2 + 2 * Len(encode_utf16(arr[i - 1])) + 2

C21_BuildLayout ==
    mlast.op = "build" =>
        LET arr == string_chunk_builder.string_arr
            string_pool_offset == get_leu32_value(mlast.out, 20)
        IN  \A i \in 1..Len(arr) :
                /\ get_leu32_value(mlast.out, 28 + 4 * (i - 1)) = WrittenBefore(arr, i)
                /\ get_leu16_value(mlast.out, string_pool_offset + WrittenBefore(arr, i))
                     = Len(encode_utf16(arr[i]))

(***************************************************************************)
(* C22.  In every buffer get_data returns, the word at offset 4 is the     *)
(* buffer's length; the size field of the string pool chunk is that        *)
(* chunk's length (its header, index table and strings, padded) and a      *)
(* multiple of 4; the resource map of the source follows it, chunk_size    *)
(* bytes long, and the content takes the rest; from_data's checks of the   *)
(* magic and of the length accept the buffer.                              *)
(***************************************************************************)
(* The bytes of the string pool chunk before its padding, for the strings  *)
(* the builder holds.                                                      *)
UnpaddedPool ==
    28 + 4 * Len(string_chunk_builder.string_arr)
    + WrittenBefore(string_chunk_builder.string_arr,
                    Len(string_chunk_builder.string_arr) + 1)

C22_RegeneratedSizes ==
    Regenerated =>
        LET out == mlast.out
            pool_size == get_leu32_value(out, 12)
            map_size == xml.resource_chunk.chunk_size
        IN  /\ get_le32_value(out, 0) = XML_MAGIC
            /\ get_le32_value(out, 4) = Len(out)
            /\ get_le32_value(out, 8) = STRING_CHUNK
            /\ pool_size % 4 = 0
            /\ pool_size >= UnpaddedPool
            /\ pool_size < UnpaddedPool + 4
            /\ 8 + pool_size + map_size + 24 <= Len(out)
            /\ \A k \in (8 + UnpaddedPool + 1)..(8 + pool_size) : out[k] = 0
            /\ Slice(out, 8 + pool_size, 8 + pool_size + map_size)
                 = Slice(mdata, xml.resource_chunk.chunk_offset,
                         xml.resource_chunk.chunk_offset + map_size)
            /\ get_le32_value(out, 8 + pool_size + map_size) = START_NAMESPACE
            /\ get_le32_value(out, Len(out) - 24) = END_NAMESPACE

C22_Witness ==
    /\ Regenerated
    /\ Added > 0
    /\ UnpaddedPool % 4 = 2
    /\ get_leu32_value(mlast.out, 12) = UnpaddedPool + 2
    /\ get_le32_value(mlast.out, 4) = Len(mlast.out)

(***************************************************************************)
(* C23.  In every buffer get_data returns, each attribute of each node     *)
(* that add_activity or add_content_provider pushed carries the same word  *)
(* as raw value and as data; the word is the position of the attribute's   *)
(* string value among the strings build wrote, and, where the pool holds   *)
(* no string outside ASCII (see C21), the string that the output's index   *)
(* table gives for that word is the value.                                 *)
(***************************************************************************)
(* The offsets of the START_TAG chunks of out from offset off on, in the   *)
(* order of the file.                                                      *)
RECURSIVE StartTags(_, _)
StartTags(out, off) ==
    IF off + 8 > Len(out) THEN <<>>
    ELSE LET size == get_leu32_value(out, off + 4)
             rest == IF size < 8 THEN <<>> ELSE StartTags(out, off + size)
         IN  IF get_le32_value(out, off) = START_TAG THEN <<off>> \o rest ELSE rest

(* The offset at which the content of a regenerated buffer starts. *)
ContentOffset(out) == 8 + get_leu32_value(out, 12) + xml.resource_chunk.chunk_size

(* The number of the node that the add operations push to, counting the    *)
(* START_TAG chunks of the file from 1.                                    *)
TargetNumber ==
    LET root == xml.content.root_node
    IN  2 + CountAll(SubSeq(root.children, 1, application_node_index), 1)

(* Every string of the builder is ASCII. *)
AsciiPool ==
    \A i \in 1..Len(string_chunk_builder.string_arr) :
        str_len(string_chunk_builder.string_arr[i])
          = Len(encode_utf16(string_chunk_builder.string_arr[i]))

C23_CreatedDataIsIndex ==
    (Regenerated /\ Added > 0) =>
        \A tags \in {StartTags(mlast.out, ContentOffset(mlast.out))} :
            LET out == mlast.out
                target == ApplicationOf(xml)
                first == TargetNumber + CountNodes(target) - Added
            IN  /\ Len(tags) = CountNodes(xml.content.root_node)
                /\ \A k \in 1..Added :
                     LET node == target.children[Len(target.children) - Added + k]
                         off == tags[first + k - 1]
                     IN  /\ get_leu32_value(out, off + 28) = Len(node.attrs)
                         /\ \A j \in 1..Len(node.attrs) :
                              LET at == off + 36 + 20 * (j - 1)
                                  raw == get_leu32_value(out, at + 8)
                                  word == get_leu32_value(out, at + 16)
                              IN  /\ word = raw
                                  /\ raw >= 0
                                  /\ raw < Len(string_chunk_builder.string_arr)
                                  /\ raw < get_leu32_value(out, 16)
                                  /\ Some(string_chunk_builder.string_arr[raw + 1])
                                       = node.attrs[j].string_data
                                  /\ AsciiPool =>
                                       \A read \in {get_string(out,
                                                       StringChunk_parse(out, 8).string_chunk,
                                                       raw)} :
                                           /\ read.kind = "Ok"
                                           /\ Some(read.s) = node.attrs[j].string_data

(* get_data, an add and get_data again: the second buffer holds a provider *)
(* whose two attributes carry different indices, both past the source's    *)
(* strings.                                                                *)
C23_Witness ==
    /\ Regenerated
    /\ Added = 2
    /\ AsciiPool
    /\ LastChild(ApplicationOf(xml)).tag_name = StrProvider
    /\ LET tags == StartTags(mlast.out, ContentOffset(mlast.out))
           off == tags[TargetNumber + CountNodes(ApplicationOf(xml)) - 1]
       IN  /\ get_leu32_value(mlast.out, off + 36 + 16)
                = get_leu32_value(mlast.out, off + 36 + 8)
           /\ get_leu32_value(mlast.out, off + 56 + 16)
                = get_leu32_value(mlast.out, off + 56 + 8)
           /\ get_leu32_value(mlast.out, off + 36 + 16)
                # get_leu32_value(mlast.out, off + 56 + 16)

(***************************************************************************)
(* C24.  From AndroidManifest::from on, the builder holds source string i  *)
(* at index i for every i below the source's string count, so a string     *)
(* interned later gets an index not below the count and the indices        *)
(* regeneration copies from the input name the same strings in the new     *)
(* pool.  Manifest 2 refutes it: its pool holds "q" at indices 1 and 2,    *)
(* init's second put("q") returns 1 without pushing, and every later       *)
(* source string sits one index lower in the builder than in the source.   *)
(***************************************************************************)
C24_SeedKeepsIndices ==
    LiveManifest =>
        LET sc == xml.string_chunk
            arr == string_chunk_builder.string_arr
        IN  /\ Len(arr) >= sc.string_count
            /\ \A i \in 0..(sc.string_count - 1) :
                 \A source \in {get_string(mdata, sc, i)} :
                     /\ source.kind = "Ok"
                     /\ arr[i + 1] = source.s
                     /\ string_chunk_builder.string_index_map[source.s] = i

(***************************************************************************)
(* C25.  A remove_file that returns Some sets the remove flag of the entry *)
(* the name resolves to; no step of the editor clears a remove flag or     *)
(* changes the number of planned source entries; and what finish writes    *)
(* holds, for every name, as many entries as the plan has unremoved source *)
(* entries and appended entries with that name, whether the removed        *)
(* entries carry an edit or not, with as many central-directory records    *)
(* and as many local-header signatures as entries.                         *)
(***************************************************************************)
(* The number of elements of seq whose name is name. *)
Named(seq, name) == Cardinality({i \in 1..Len(seq) : seq[i].file_name = name})

SurvivorEntries == [k \in 1..Len(Survivors) |-> Survivors[k].origin_entry]

(* The offsets below end at which d holds the local-header signature. *)
LocalMagicOffsets(d, end) ==
    {k \in 0..(end - 4) : get_leu32_value(d, k) = LOCAL_FILE_HEADER}

RemovedOmitted ==
    /\ (last.op = "remove_file" /\ last.ret = "Some") =>
            editable_entries[LatestWith(last.name)].remove
    /\ Written =>
        /\ OutZip.kind = "Ok"
        /\ Len(OutZip.entries) = Len(Survivors) + Len(append_entries)
        /\ \A name \in {zip.entries[i].file_name : i \in 1..Len(zip.entries)}
                        \cup {append_entries[i].file_name : i \in 1..Len(append_entries)} :
                Named(OutZip.entries, name)
                  = Named(SurvivorEntries, name) + Named(append_entries, name)
        /\ CountRecords(last.out, OutZip.central_directory_offset, Len(last.out) - 22)
             = Len(OutZip.entries)
        /\ Cardinality(LocalMagicOffsets(last.out, OutZip.central_directory_offset))
             = Len(OutZip.entries)

RemoveFlagKept ==
    /\ Len(editable_entries') = Len(editable_entries)
    /\ \A i \in 1..Len(editable_entries) :
            editable_entries[i].remove => editable_entries'[i].remove

C25_RemovalWins == []RemovedOmitted /\ [][RemoveFlagKept]_vars

(* finish has written an archive while the plan holds an entry that is     *)
(* both removed and edited, and a source entry that is kept.               *)
C25_Witness ==
    /\ Written
    /\ \E i \in 1..Len(editable_entries) :
            /\ editable_entries[i].remove
            /\ editable_entries[i].edit.some
            /\ Named(OutZip.entries, editable_entries[i].origin_entry.file_name) = 0
    /\ Len(Survivors) > 0
    /\ Len(OutZip.entries) < Len(zip.entries) + Len(append_entries)

(***************************************************************************)
(* C26.  In what finish writes, every source entry copied without edit is  *)
(* followed, after its local header, by as many payload bytes as the       *)
(* compressed-size fields of its output local header and of its output     *)
(* central-directory record state: the next local header, or the central   *)
(* directory after the last entry, starts right after them.  Archive 5     *)
(* refutes it: the local header of its first entry states size 0 (the      *)
(* sizes are in a data descriptor) and its central record size 2; finish   *)
(* writes the header from the central record and copies no byte.           *)
(***************************************************************************)
(* The offset at which the bytes of emitted entry k end. *)
NextStart(k) ==
    IF k < Len(OutZip.entries) THEN OutZip.entries[k + 1].local_file_header_offset
    ELSE OutZip.central_directory_offset

C26_CopiedSize ==
    Written =>
        /\ OutZip.kind = "Ok"
        /\ \A k \in 1..Len(OutZip.entries) :
            Copied(k) =>
                LET h == OutHeader(OutZip, k)
                    written == NextStart(k) - get_data_offset(h)
                IN  /\ h.kind = "Ok"
                    /\ written = h.compressed_size
                    /\ written = OutZip.entries[k].compressed_size
====
